---------------------------- MODULE Spec2Model ----------------------------
(***************************************************************************)
(* Model of the permission service of crush (package permission,           *)
(* src/unnamed/part_004): the three-mode policy gate, the allowlist, the   *)
(* auto-approve set, the session permission cache, the global prompt lock  *)
(* requestMu, the pending request table with its capacity-1 channels, and  *)
(* the decision calls Grant, GrantPersistent and Deny.                     *)
(*                                                                         *)
(* Every call of Request is one request invocation r \in Reqs, and every   *)
(* call of Grant/GrantPersistent/Deny is one decision invocation           *)
(* d \in Decs.  Each invocation is a goroutine; an action is a run of its  *)
(* statements that no other goroutine can tell apart from an atomic one    *)
(* (statements on the goroutine's own data, and accesses that commute with *)
(* everything the other goroutines can do meanwhile).                      *)
(***************************************************************************)
EXTENDS Integers, Sequences, FiniteSets, Bags, TLC

(***************************************************************************)
(* Bounds of the model.                                                    *)
(***************************************************************************)
\* number of Request calls made during a run
NumRequests == 2
\* number of Grant / GrantPersistent / Deny calls made during a run
NumDecisions == 2

Reqs == 1..NumRequests
Decs == 1..NumDecisions

(***************************************************************************)
(* Program constants.                                                      *)
(***************************************************************************)
ModeRegular == 0
ModeYolo == 1
ModePlan == 2
Modes == {ModeRegular, ModeYolo, ModePlan}

\* error values returned by Request
ErrNil == "nil"
ErrPlanMode == "write operations are not allowed in plan mode"
ErrContext == "context canceled"

\* isWriteOperation: writeActions
WriteActions == <<"write", "execute">>
\* isReadOnlyTool: readOnlyTools
ReadOnlyTools == <<"mcp_sequential-thinking_sequentialthinking">>

\* slices.Contains
Contains(s, x) == \E i \in 1..Len(s) : s[i] = x

isWriteOperation(action) == Contains(WriteActions, action)

\* (mutant of isReadOnlyTool: no tool is exempt)
isReadOnlyToolNone(toolName) == FALSE

isReadOnlyTool(toolName) == Contains(ReadOnlyTools, toolName)

(***************************************************************************)
(* The file system probed by os.Stat, and filepath.Dir.  A path is the     *)
(* sequence of its components; an absolute path starts with "/", the       *)
(* empty path is << >> and "." is <<".">>.                                 *)
(***************************************************************************)
PathEmpty == << >>
PathDot == <<".">>
PathRepo == <<"/", "repo">>
PathFileA == <<"/", "repo", "a.txt">>
PathFileB == <<"/", "repo", "b.txt">>
PathNew == <<"/", "tmp", "new">>
PathRel == <<"rel.txt">>
PathSub == <<"sub">>
PathSubFile == <<"sub", "c.txt">>
PathRelNew == <<"new.txt">>

\* the directories and the regular files that exist
Directories == {<<"/">>, PathRepo, PathDot, <<"/", "tmp">>, PathSub}
Files == {PathFileA, PathFileB, PathRel, PathSubFile}

\* os.Stat: err == nil iff the path exists
StatOk(path) == path \in Directories \cup Files

\* fileInfo.IsDir()
IsDir(path) == path \in Directories

\* filepath.Dir: all but the last element of the path, "." when nothing is left
FilepathDir(path) ==
    IF Len(path) = 0 THEN PathDot
    ELSE IF Len(path) = 1 THEN (IF path[1] = "/" THEN path ELSE PathDot)
    ELSE SubSeq(path, 1, Len(path) - 1)

\* the service's configured working directory (NewPermissionService)
WorkingDir == <<"/", "work">>

\* Request, lines 195-207: the directory a request's path resolves to
ResolveDir(path) ==
    LET dir == IF StatOk(path)
               THEN (IF IsDir(path) THEN path ELSE FilepathDir(path))
               ELSE path
    IN  IF dir = PathDot THEN WorkingDir ELSE dir

(***************************************************************************)
(* Inputs.                                                                 *)
(***************************************************************************)
\* The CreatePermissionRequest values callers pass (Description and Params
\* are carried through unread by the service and are left out; the
\* ToolCallID of invocation r is r).
ReqInputs ==
    { [SessionID |-> "s1", ToolName |-> "bash", Action |-> "execute", Path |-> PathFileA],
      [SessionID |-> "s1", ToolName |-> "bash", Action |-> "execute", Path |-> PathNew],
      [SessionID |-> "s1", ToolName |-> "edit", Action |-> "write", Path |-> PathRel] }

Sessions == {o.SessionID : o \in ReqInputs}

\* the allowed-tools lists the service may be constructed with
AllowedToolsConfigs == { <<"view", "edit:write">> }

\* the zero CreatePermissionRequest / PermissionRequest
NoOpts == [SessionID |-> "", ToolName |-> "", Action |-> "", Path |-> PathEmpty]
NoPermission ==
    [ID |-> 0, SessionID |-> "", ToolCallID |-> 0, ToolName |-> "", Action |-> "",
     Path |-> PathEmpty]

\* (mutant of Notification: a denial is published with Granted set as well)
NotificationSetsBoth(toolCallID, granted, denied) ==
    [ToolCallID |-> toolCallID, Granted |-> granted \/ denied, Denied |-> denied]

\* PermissionNotification
Notification(toolCallID, granted, denied) ==
    [ToolCallID |-> toolCallID, Granted |-> granted, Denied |-> denied]

(***************************************************************************)
(* Package agent, internal/agent/oauth_tools.go: the remapping of tool     *)
(* names for Anthropic OAuth.  A name is the sequence of its characters,   *)
(* so that strings.ToLower is computed character by character.             *)
(***************************************************************************)
LowerLetters ==
    <<"a", "b", "c", "d", "e", "f", "g", "h", "i", "j", "k", "l", "m",
      "n", "o", "p", "q", "r", "s", "t", "u", "v", "w", "x", "y", "z">>
UpperLetters ==
    <<"A", "B", "C", "D", "E", "F", "G", "H", "I", "J", "K", "L", "M",
      "N", "O", "P", "Q", "R", "S", "T", "U", "V", "W", "X", "Y", "Z">>

\* unicode.ToLower / unicode.ToUpper on one ASCII character
ToLowerChar(c) ==
    IF \E i \in 1..Len(UpperLetters) : UpperLetters[i] = c
    THEN LowerLetters[CHOOSE i \in 1..Len(UpperLetters) : UpperLetters[i] = c]
    ELSE c
ToUpperChar(c) ==
    IF \E i \in 1..Len(LowerLetters) : LowerLetters[i] = c
    THEN UpperLetters[CHOOSE i \in 1..Len(LowerLetters) : LowerLetters[i] = c]
    ELSE c

\* strings.ToLower
ToLower(name) == [i \in 1..Len(name) |-> ToLowerChar(name[i])]

\* var claudeCodeToolNames, lines 16-24
claudeCodeToolNames ==
    (<<"b", "a", "s", "h">> :> <<"B", "a", "s", "h">>) @@
    (<<"r", "e", "a", "d">> :> <<"R", "e", "a", "d">>) @@
    (<<"w", "r", "i", "t", "e">> :> <<"W", "r", "i", "t", "e">>) @@
    (<<"e", "d", "i", "t">> :> <<"E", "d", "i", "t">>) @@
    (<<"g", "r", "e", "p">> :> <<"G", "r", "e", "p">>) @@
    (<<"g", "l", "o", "b">> :> <<"G", "l", "o", "b">>) @@
    (<<"v", "i", "e", "w">> :> <<"V", "i", "e", "w">>)

\* (mutant of reverseToolNames: the keys are the values as they stand, not
\* lowercased)
reverseToolNamesUnlowered ==
    [v \in {claudeCodeToolNames[k] : k \in DOMAIN claudeCodeToolNames} |->
        CHOOSE k \in DOMAIN claudeCodeToolNames : claudeCodeToolNames[k] = v]

\* var reverseToolNames, lines 27-33: reverse[strings.ToLower(v)] = k for
\* every entry (k, v).  The lowercased values are pairwise different, so the
\* order in which range visits the map makes no difference.
reverseToolNames ==
    [v \in {ToLower(claudeCodeToolNames[k]) : k \in DOMAIN claudeCodeToolNames} |->
        CHOOSE k \in DOMAIN claudeCodeToolNames : ToLower(claudeCodeToolNames[k]) = v]

\* (mutant of ToClaudeCodeName: the name is looked up as it stands)
ToClaudeCodeNameExact(name) ==
    IF name \in DOMAIN claudeCodeToolNames
    THEN claudeCodeToolNames[name]
    ELSE name

\* lines 36-41
ToClaudeCodeName(name) ==
    IF ToLower(name) \in DOMAIN claudeCodeToolNames
    THEN claudeCodeToolNames[ToLower(name)]
    ELSE name

\* lines 44-49
FromClaudeCodeName(name) ==
    IF ToLower(name) \in DOMAIN reverseToolNames
    THEN reverseToolNames[ToLower(name)]
    ELSE name

\* fantasy.AgentTool.Info(): of a tool as it is, and of an oauthToolWrapper
\* (lines 58-65), which reports its renamed name with the description and
\* the parameters of the tool it wraps
RECURSIVE Info(_)
Info(tool) ==
    IF "renamedName" \in DOMAIN tool
    THEN [Name |-> tool.renamedName,
          Description |-> Info(tool.AgentTool).Description,
          Parameters |-> Info(tool.AgentTool).Parameters]
    ELSE [Name |-> tool.Name, Description |-> tool.Description,
          Parameters |-> tool.Parameters]

\* lines 73-82: what WrapToolsForOAuth puts at one index
WrapTool(tool) ==
    LET originalName == Info(tool).Name
        renamedName == ToClaudeCodeName(originalName)
    IN  IF renamedName # originalName
        THEN [AgentTool |-> tool, renamedName |-> renamedName]
        ELSE tool

\* (mutant of WrapToolsForOAuth: every tool is wrapped, renamed or not)
WrapToolsForOAuthAll(tools) ==
    [i \in 1..Len(tools) |->
        [AgentTool |-> tools[i], renamedName |-> ToClaudeCodeName(Info(tools[i]).Name)]]

\* lines 70-85
WrapToolsForOAuth(tools) == [i \in 1..Len(tools) |-> WrapTool(tools[i])]

\* Inputs.  MaxTools bounds the length of the tool lists.
MaxTools == 2

\* every casing of a name
Casings(name) ==
    {s \in [1..Len(name) -> {name[i] : i \in 1..Len(name)}
                              \cup {ToUpperChar(name[i]) : i \in 1..Len(name)}] :
        \A i \in 1..Len(name) : s[i] \in {name[i], ToUpperChar(name[i])}}

\* the names the functions are called with: every casing of every listed
\* name, and names outside the list (oauth_tools_test.go, lines 50-51)
NameInputs ==
    UNION {Casings(k) : k \in DOMAIN claudeCodeToolNames}
    \cup { <<"c", "u", "s", "t", "o", "m">>,
           <<"m", "u", "l", "t", "i", "e", "d", "i", "t">>,
           <<"b", "a", "s", "h", "x">>,
           <<"B", "a", "s">>,
           << >> }

\* the tools WrapToolsForOAuth is called with (mockTool of
\* oauth_tools_test.go, lines 11-23; id stands for the pointer)
MockTool(id, name) ==
    [id |-> id, Name |-> name,
     Description |-> <<"description of", id>>, Parameters |-> <<"parameters of", id>>]

ToolNameInputs ==
    { <<"b", "a", "s", "h">>, <<"r", "e", "a", "d">>, <<"B", "a", "s", "h">>,
      <<"R", "E", "A", "D">>, <<"c", "u", "s", "t", "o", "m">> }

ToolLists ==
    UNION { {[i \in 1..n |-> MockTool(i, names[i])] : names \in [1..n -> ToolNameInputs]} :
            n \in 0..MaxTools }

\* one run of package agent: the name and the tool list the functions are
\* called with, the calls made so far and their results
IdleAgent ==
    [name |-> << >>, tools |-> << >>, called |-> {},
     to |-> << >>, from |-> << >>, back |-> << >>, wrapped |-> << >>]

AgentInputs ==
    {[IdleAgent EXCEPT !.name = n] : n \in NameInputs}
    \cup {[IdleAgent EXCEPT !.tools = t] : t \in ToolLists}

(***************************************************************************)
(* The legacy skip API, lines 273-283, and the skip argument of            *)
(* NewPermissionService, line 285.                                         *)
(***************************************************************************)
\* no call of the skip API made
NoCall == [op |-> "none", arg |-> FALSE, before |-> ModeRegular, result |-> FALSE, n |-> 0]

\* the constructor's argument and the skip API's calls are not recorded
IdleLegacy == [recorded |-> FALSE, skip |-> FALSE, last |-> NoCall]

\* lines 286-289: the mode NewPermissionService starts the service in
NewMode(skip) == IF skip THEN ModeYolo ELSE ModeRegular

(***************************************************************************)
(* The Anthropic login flows.                                              *)
(***************************************************************************)
\* A string is the sequence of its characters.  Pasted text is any string
\* of at most MaxInput characters over a code character, the character the
\* State values are made of, the separator and the space.
MaxInput == 3

Chars == {"c", "s", "#", " "}

Inputs == UNION { [1..n -> Chars] : n \in 0..MaxInput }

\* anthropic.InitiateAuth, part_005 lines 49-70: the State of the k-th call.
\* generateState gives 32 random bytes in base64url, which has no '#' and
\* no space; two calls give different values.
MaxInitiate == 2

AuthState(k) == [i \in 1..k |-> "s"]

\* no AuthParams yet (nil)
NoAuthParams == << >>

\* strings.TrimSpace
RECURSIVE TrimLeft(_)
TrimLeft(str) ==
    IF Len(str) > 0 /\ str[1] = " " THEN TrimLeft(Tail(str)) ELSE str

RECURSIVE TrimRight(_)
TrimRight(str) ==
    IF Len(str) > 0 /\ str[Len(str)] = " "
    THEN TrimRight(SubSeq(str, 1, Len(str) - 1))
    ELSE str

TrimSpace(str) == TrimRight(TrimLeft(str))

\* strings.Contains(str, "#")
ContainsHash(str) == \E i \in 1..Len(str) : str[i] = "#"

\* the index of the first "#" of a string that has one
IndexHash(str) == CHOOSE i \in 1..Len(str) : str[i] = "#" /\ \A j \in 1..(i - 1) : str[j] # "#"

\* strings.SplitN(str, "#", 2): the text before the first "#" and all the
\* text after it; the string itself when it has no "#"
SplitN2(str) ==
    IF ContainsHash(str)
    THEN <<SubSeq(str, 1, IndexHash(str) - 1), SubSeq(str, IndexHash(str) + 1, Len(str))>>
    ELSE <<str>>

\* strings.Split(str, "#"): the text between every two separators
RECURSIVE Split(_)
Split(str) ==
    IF ContainsHash(str)
    THEN <<SubSeq(str, 1, IndexHash(str) - 1)>>
             \o Split(SubSeq(str, IndexHash(str) + 1, Len(str)))
    ELSE <<str>>

\* splitOnce(str, "#"), called at part_003 line 63 and defined in another
\* file of package cmd: by its name and by the test len(parts) != 2 that
\* follows the call, two parts, cut at the first "#", and a single part
\* when there is no "#"
splitOnce(str) == SplitN2(str)

\* the states of OAuthAnthropic (part_000 lines 28-34) and of DeviceFlow
StateReady == "Ready"
StateWaitingForCode == "WaitingForCode"
StateExchanging == "Exchanging"
StateSuccess == "Success"
StateError == "Error"

\* the message a command hands back to the component: the result of
\* initiateAuth (kind "auth", with the State generated) or of exchangeCode
\* (kind "token", for the n-th exchange), with or without an error
AuthMsg(state, error) == [kind |-> "auth", state |-> state, n |-> 0, error |-> error]

TokenMsg(n, error) == [kind |-> "token", state |-> << >>, n |-> n, error |-> error]

\* the Actions HandleMsg returns; a CLI flow returns nil or an error
ActionNone == "nil"
ActionCmd == "ActionCmd"
ActionReportError == "ActionCmd{ReportError}"
ActionClose == "ActionClose"
ActionSelectModel == "ActionSelectModel"

\* no exchange started yet
NoExchange == [n |-> 0, code |-> << >>, state |-> << >>]

\* a login flow before its first step: part_000 lines 77-118 (the dialog
\* starts in Ready), part_002 lines 87-122 (the component starts in Ready,
\* in API-key mode), part_003 line 86 and login.go line 217.  For a CLI
\* flow State is the position in the function: Ready before InitiateAuth,
\* WaitingForCode at the input, Exchanging in ExchangeCode, Success after
\* return nil and Error after the return of an error.  step names the
\* handler that ran last, exchange the last call of ExchangeCode started.
NewLogin(flow) ==
    [flow |-> flow, State |-> StateReady, oauth |-> (flow # "onboarding"),
     input |-> << >>, authParams |-> NoAuthParams, initiated |-> 0, msgs |-> {},
     exchange |-> NoExchange, token |-> FALSE, saved |-> FALSE,
     action |-> ActionNone, step |-> "new"]

Flows == {"dialog", "onboarding", "inline", "plain"}

\* no login flow is modelled
IdleLogin == NewLogin("none")

VARIABLES
    mode,                 \* s.mode
    allowedTools,         \* s.allowedTools
    autoApproveSessions,  \* s.autoApproveSessions: the sessions mapped to true
    sessionPermissions,   \* s.sessionPermissions
    pendingRequests,      \* s.pendingRequests: the IDs that have a channel in the map
    chans,                \* the buffer of the channel made for each ID (capacity 1)
    requestMu,            \* s.requestMu: the invocation holding it, 0 when free
    activeRequest,        \* s.activeRequest (NoPermission for nil)
    nextID,               \* the next fresh ID uuid.New() hands out
    prompts,              \* the PermissionRequests published on the request broker
    notifications,        \* the bag of PermissionNotifications published
    req,                  \* the state of each Request invocation
    dec,                  \* the state of each decision invocation
    agent,                \* package agent: the tool-name remapping calls of a run
    legacy,               \* the skip argument of NewPermissionService and the last call of the skip API
    login                 \* one Anthropic login flow: dialog, onboarding component or CLI

vars == <<mode, allowedTools, autoApproveSessions, sessionPermissions, pendingRequests,
          chans, requestMu, activeRequest, nextID, prompts, notifications, req, dec,
          agent, legacy, login>>

\* notificationBroker.Publish(pubsub.CreatedEvent, n)
PublishNotification(n) == notifications' = notifications (+) SetToBag({n})

\* A Request invocation that has not been called yet.  Beside the call's own
\* data (pc, opts, the mode it read, its permission, its context, the values it
\* returns) the record keeps bookkeeping the properties are stated with: via, the
\* return statement taken; from, the decision invocation whose value the
\* select received; busy, whether a prompt was pending when the call returned
\* at the mode gate.
IdleReq ==
    [pc |-> "idle", opts |-> NoOpts, mode |-> ModeRegular, permission |-> NoPermission,
     ctxDone |-> FALSE, granted |-> FALSE, err |-> ErrNil, via |-> "", from |-> 0,
     busy |-> FALSE]

\* a decision invocation that has not been called yet
IdleDec == [pc |-> "idle", kind |-> "", permission |-> NoPermission]

\* NewPermissionService
ServiceInit ==
    /\ mode \in {ModeRegular, ModeYolo}
    /\ allowedTools \in AllowedToolsConfigs
    /\ autoApproveSessions = {}
    /\ sessionPermissions = << >>
    /\ pendingRequests = {}
    /\ chans = << >>
    /\ requestMu = 0
    /\ activeRequest = NoPermission
    /\ nextID = 1
    /\ prompts = << >>
    /\ notifications = EmptyBag
    /\ req = [r \in Reqs |-> IdleReq]
    /\ dec = [d \in Decs |-> IdleDec]

\* the service as constructed; no call of package agent is modelled
Init == ServiceInit /\ agent = IdleAgent /\ legacy = IdleLegacy /\ login = IdleLogin


(***************************************************************************)
(* Request(ctx, opts), lines 150-249.                                      *)
(***************************************************************************)
\* (mutant of NewPermission: the ID is not fresh)
NewPermissionFixedID(r, o, id) ==
    [ID |-> 1, SessionID |-> o.SessionID, ToolCallID |-> r, ToolName |-> o.ToolName,
     Action |-> o.Action, Path |-> ResolveDir(o.Path)]

\* (mutant of NewPermission: the request carries the path as given, not
\* the directory it resolves to)
NewPermissionRawPath(r, o, id) ==
    [ID |-> id, SessionID |-> o.SessionID, ToolCallID |-> r, ToolName |-> o.ToolName,
     Action |-> o.Action, Path |-> o.Path]

\* the PermissionRequest built at lines 208-217
NewPermission(r, o, id) ==
    [ID |-> id, SessionID |-> o.SessionID, ToolCallID |-> r, ToolName |-> o.ToolName,
     Action |-> o.Action, Path |-> ResolveDir(o.Path)]

\* (mutant of CacheMatch: the path is not compared)
CacheMatchAnyPath(p, permission) ==
    /\ p.ToolName = permission.ToolName
    /\ p.Action = permission.Action
    /\ p.SessionID = permission.SessionID

\* line 221: a record of the session cache matches the permission
CacheMatch(p, permission) ==
    /\ p.ToolName = permission.ToolName
    /\ p.Action = permission.Action
    /\ p.SessionID = permission.SessionID
    /\ p.Path = permission.Path

\* lines 219-230: the search of the session cache
CacheHit(permission) ==
    \E i \in 1..Len(sessionPermissions) : CacheMatch(sessionPermissions[i], permission)

\* (mutant of Allowlisted: only the "tool:action" key is looked up)
AllowlistedKeyOnly(o) == Contains(allowedTools, o.ToolName \o ":" \o o.Action)

\* lines 178-179: the allowlist holds "tool:action" or "tool"
Allowlisted(o) ==
    \/ Contains(allowedTools, o.ToolName \o ":" \o o.Action)
    \/ Contains(allowedTools, o.ToolName)

\* (mutant of AutoApproved: a flag set for any session approves every session)
AutoApprovedAnySession(o) == autoApproveSessions # {}

\* lines 183-187: the session's auto-approve flag
AutoApproved(o) == o.SessionID \in autoApproveSessions

\* (mutant of PlanBlocks: the allowlist is consulted before the write block)
PlanBlocksUnlessAllowlisted(m, o) ==
    m = ModePlan /\ isWriteOperation(o.Action) /\ ~isReadOnlyTool(o.ToolName) /\ ~Allowlisted(o)

\* lines 157-161: the Plan-mode write block, on the mode the call read
PlanBlocks(m, o) == m = ModePlan /\ isWriteOperation(o.Action) /\ ~isReadOnlyTool(o.ToolName)

\* (mutant of YoloApproves: the case label names the wrong mode)
YoloApprovesRegular(m) == m = ModeRegular

\* lines 163-165: the Yolo-mode approval, on the mode the call read
YoloApproves(m) == m = ModeYolo

\* (mutant of CanLock: Request does not wait for the mutex)
CanLockAlways == TRUE

\* line 174: s.requestMu.Lock() goes through when the mutex is free
CanLock == requestMu = 0

\* the values a call returns with
Returned(rq, granted, err, via) ==
    [rq EXCEPT !.pc = "done", !.granted = granted, !.err = err, !.via = via]

\* (mutant of ReqStart: the "requested" notification is published before the
\* mode gate, so also by the calls the gate stops)
ReqStartNotifiesFirst(r, o) ==
    /\ req[r].pc = "idle"
    /\ r > 1 => req[r - 1].pc # "idle"
    /\ LET rq == [req[r] EXCEPT !.opts = o, !.mode = mode]
           atGate == [rq EXCEPT !.busy = pendingRequests # {}]
       IN  IF PlanBlocks(mode, o)
           THEN req' = [req EXCEPT ![r] = Returned(atGate, FALSE, ErrPlanMode, "plan")]
           ELSE IF YoloApproves(mode)
           THEN req' = [req EXCEPT ![r] = Returned(atGate, TRUE, ErrNil, "yolo")]
           ELSE req' = [req EXCEPT ![r] = [rq EXCEPT !.pc = "lock"]]
    /\ PublishNotification(Notification(r, FALSE, FALSE))
    /\ UNCHANGED <<mode, allowedTools, agent, legacy, login, autoApproveSessions, sessionPermissions,
                   pendingRequests, chans, requestMu, activeRequest, nextID, prompts, dec>>

\* Lines 151-173.  The call starts: it reads the mode and returns at the mode
\* gate, or passes it and publishes the "requested" notification; it then
\* stands at s.requestMu.Lock().  Invocations are numbered in call order.
ReqStart(r, o) ==
    /\ req[r].pc = "idle"
    /\ r > 1 => req[r - 1].pc # "idle"
    /\ LET rq == [req[r] EXCEPT !.opts = o, !.mode = mode]
           atGate == [rq EXCEPT !.busy = pendingRequests # {}]
       IN  IF PlanBlocks(mode, o)
           THEN /\ req' = [req EXCEPT ![r] = Returned(atGate, FALSE, ErrPlanMode, "plan")]
                /\ UNCHANGED notifications
           ELSE IF YoloApproves(mode)
           THEN /\ req' = [req EXCEPT ![r] = Returned(atGate, TRUE, ErrNil, "yolo")]
                /\ UNCHANGED notifications
           ELSE /\ req' = [req EXCEPT ![r] = [rq EXCEPT !.pc = "lock"]]
                /\ PublishNotification(Notification(r, FALSE, FALSE))
    /\ UNCHANGED <<mode, allowedTools, agent, legacy, login, autoApproveSessions, sessionPermissions,
                   pendingRequests, chans, requestMu, activeRequest, nextID, prompts, dec>>

\* (mutant of ReqFastPath: the allowlist and the auto-approve set are looked
\* up before s.requestMu.Lock())
ReqFastPathBeforeLock(r) ==
    /\ req[r].pc = "lock"
    /\ Allowlisted(req[r].opts) \/ AutoApproved(req[r].opts)
    /\ IF Allowlisted(req[r].opts)
       THEN /\ req' = [req EXCEPT ![r] = Returned(@, TRUE, ErrNil, "allowlist")]
            /\ UNCHANGED notifications
       ELSE /\ req' = [req EXCEPT ![r] = Returned(@, TRUE, ErrNil, "autoapprove")]
            /\ PublishNotification(Notification(r, TRUE, FALSE))
    /\ UNCHANGED <<mode, allowedTools, agent, legacy, login, autoApproveSessions, sessionPermissions,
                   pendingRequests, chans, requestMu, activeRequest, nextID, prompts, dec>>

\* Lines 174-193: the call takes the global lock and finds its tool on the
\* allowlist or its session auto-approved; it returns true, which releases
\* the lock (the deferred Unlock of line 175).
ReqFastPath(r) ==
    /\ req[r].pc = "lock"
    /\ CanLock
    /\ Allowlisted(req[r].opts) \/ AutoApproved(req[r].opts)
    /\ IF Allowlisted(req[r].opts)
       THEN /\ req' = [req EXCEPT ![r] = Returned(@, TRUE, ErrNil, "allowlist")]
            /\ UNCHANGED notifications
       ELSE /\ req' = [req EXCEPT ![r] = Returned(@, TRUE, ErrNil, "autoapprove")]
            /\ PublishNotification(Notification(r, TRUE, FALSE))
    /\ UNCHANGED <<mode, allowedTools, agent, legacy, login, autoApproveSessions, sessionPermissions,
                   pendingRequests, chans, requestMu, activeRequest, nextID, prompts, dec>>

\* Lines 174-230: the call takes the global lock, misses the allowlist and
\* the auto-approve set, builds its PermissionRequest with a fresh ID and
\* finds a matching record in the session cache; it returns true, which
\* releases the lock.
ReqCacheHit(r) ==
    /\ req[r].pc = "lock"
    /\ CanLock
    /\ ~Allowlisted(req[r].opts) /\ ~AutoApproved(req[r].opts)
    /\ LET permission == NewPermission(r, req[r].opts, nextID)
       IN  /\ CacheHit(permission)
           /\ req' = [req EXCEPT ![r] =
                        Returned([@ EXCEPT !.permission = permission], TRUE, ErrNil, "cache")]
    /\ PublishNotification(Notification(r, TRUE, FALSE))
    /\ nextID' = nextID + 1
    /\ UNCHANGED <<mode, allowedTools, agent, legacy, login, autoApproveSessions, sessionPermissions,
                   pendingRequests, chans, requestMu, activeRequest, prompts, dec>>

\* (mutant of ReqPrompt: past the lock the call reads s.mode again and
\* returns true when it finds Yolo)
ReqPromptRereadsMode(r) ==
    /\ req[r].pc = "lock"
    /\ CanLock
    /\ ~Allowlisted(req[r].opts) /\ ~AutoApproved(req[r].opts)
    /\ LET permission == NewPermission(r, req[r].opts, nextID)
       IN  /\ ~CacheHit(permission)
           /\ IF mode = ModeYolo
              THEN /\ req' = [req EXCEPT ![r] =
                               Returned([@ EXCEPT !.permission = permission],
                                        TRUE, ErrNil, "yolo")]
                   /\ UNCHANGED <<activeRequest, chans, pendingRequests, prompts,
                                  requestMu>>
              ELSE /\ activeRequest' = permission
                   /\ chans' = (permission.ID :> << >>) @@ chans
                   /\ pendingRequests' = pendingRequests \cup {permission.ID}
                   /\ prompts' = Append(prompts, permission)
                   /\ req' = [req EXCEPT ![r].pc = "wait", ![r].permission = permission]
                   /\ requestMu' = r
    /\ nextID' = nextID + 1
    /\ UNCHANGED <<mode, allowedTools, agent, legacy, login, autoApproveSessions, sessionPermissions,
                   notifications, dec>>

\* (mutant of ReqPrompt: past the fast paths the call looks at its context
\* and returns the context's error without registering or publishing)
ReqPromptChecksCtx(r) ==
    /\ req[r].pc = "lock"
    /\ CanLock
    /\ ~Allowlisted(req[r].opts) /\ ~AutoApproved(req[r].opts)
    /\ LET permission == NewPermission(r, req[r].opts, nextID)
       IN  /\ ~CacheHit(permission)
           /\ IF req[r].ctxDone
              THEN /\ req' = [req EXCEPT ![r] =
                               Returned([@ EXCEPT !.permission = permission],
                                        FALSE, ErrContext, "cancel")]
                   /\ UNCHANGED <<activeRequest, chans, pendingRequests, prompts,
                                  requestMu>>
              ELSE /\ activeRequest' = permission
                   /\ chans' = (permission.ID :> << >>) @@ chans
                   /\ pendingRequests' = pendingRequests \cup {permission.ID}
                   /\ prompts' = Append(prompts, permission)
                   /\ req' = [req EXCEPT ![r].pc = "wait", ![r].permission = permission]
                   /\ requestMu' = r
    /\ nextID' = nextID + 1
    /\ UNCHANGED <<mode, allowedTools, agent, legacy, login, autoApproveSessions, sessionPermissions,
                   notifications, dec>>

\* Lines 174-241: the call takes the global lock, misses every fast path,
\* makes its request the active request, puts a new capacity-1 channel in
\* the pending table under the fresh ID and publishes the request to the
\* approver; it then stands at the select, holding the lock.
ReqPrompt(r) ==
    /\ req[r].pc = "lock"
    /\ CanLock
    /\ ~Allowlisted(req[r].opts) /\ ~AutoApproved(req[r].opts)
    /\ LET permission == NewPermission(r, req[r].opts, nextID)
       IN  /\ ~CacheHit(permission)
           /\ activeRequest' = permission
           /\ chans' = (permission.ID :> << >>) @@ chans
           /\ pendingRequests' = pendingRequests \cup {permission.ID}
           /\ prompts' = Append(prompts, permission)
           /\ req' = [req EXCEPT ![r].pc = "wait", ![r].permission = permission]
    /\ requestMu' = r
    /\ nextID' = nextID + 1
    /\ UNCHANGED <<mode, allowedTools, agent, legacy, login, autoApproveSessions, sessionPermissions,
                   notifications, dec>>

\* (mutant of ReqRecv: a denial is returned as ErrorPermissionDenied, line 29)
ReqRecvDenialIsError(r) ==
    /\ req[r].pc = "wait"
    /\ Len(chans[req[r].permission.ID]) > 0
    /\ LET msg == Head(chans[req[r].permission.ID])
       IN  req' = [req EXCEPT ![r].pc = "del", ![r].granted = msg.val,
                              ![r].err = IF msg.val THEN ErrNil
                                         ELSE "user denied permission",
                              ![r].via = "decision", ![r].from = msg.by]
    /\ chans' = [chans EXCEPT ![req[r].permission.ID] = Tail(@)]
    /\ UNCHANGED <<mode, allowedTools, agent, legacy, login, autoApproveSessions, sessionPermissions,
                   pendingRequests, requestMu, activeRequest, nextID, prompts,
                   notifications, dec>>

\* (mutant of ReqRecv: whatever value arrives, the call returns true)
ReqRecvGrantsAlways(r) ==
    /\ req[r].pc = "wait"
    /\ Len(chans[req[r].permission.ID]) > 0
    /\ LET msg == Head(chans[req[r].permission.ID])
       IN  req' = [req EXCEPT ![r].pc = "del", ![r].granted = TRUE, ![r].err = ErrNil,
                              ![r].via = "decision", ![r].from = msg.by]
    /\ chans' = [chans EXCEPT ![req[r].permission.ID] = Tail(@)]
    /\ UNCHANGED <<mode, allowedTools, agent, legacy, login, autoApproveSessions, sessionPermissions,
                   pendingRequests, requestMu, activeRequest, nextID, prompts,
                   notifications, dec>>

\* Lines 246-247: the select takes the decision from the channel.
ReqRecv(r) ==
    /\ req[r].pc = "wait"
    /\ Len(chans[req[r].permission.ID]) > 0
    /\ LET msg == Head(chans[req[r].permission.ID])
       IN  req' = [req EXCEPT ![r].pc = "del", ![r].granted = msg.val, ![r].err = ErrNil,
                              ![r].via = "decision", ![r].from = msg.by]
    /\ chans' = [chans EXCEPT ![req[r].permission.ID] = Tail(@)]
    /\ UNCHANGED <<mode, allowedTools, agent, legacy, login, autoApproveSessions, sessionPermissions,
                   pendingRequests, requestMu, activeRequest, nextID, prompts,
                   notifications, dec>>

\* (mutant of ReqCtxDone: the cancelled call gives the lock up at once,
\* before its deferred calls run)
ReqCtxDoneUnlocks(r) ==
    /\ req[r].pc = "wait"
    /\ req[r].ctxDone
    /\ req' = [req EXCEPT ![r].pc = "del", ![r].granted = FALSE, ![r].err = ErrContext,
                          ![r].via = "cancel"]
    /\ requestMu' = 0
    /\ UNCHANGED <<mode, allowedTools, agent, legacy, login, autoApproveSessions, sessionPermissions,
                   pendingRequests, chans, activeRequest, nextID, prompts, notifications,
                   dec>>

\* Lines 244-245: the select takes ctx.Done().
ReqCtxDone(r) ==
    /\ req[r].pc = "wait"
    /\ req[r].ctxDone
    /\ req' = [req EXCEPT ![r].pc = "del", ![r].granted = FALSE, ![r].err = ErrContext,
                          ![r].via = "cancel"]
    /\ UNCHANGED <<mode, allowedTools, agent, legacy, login, autoApproveSessions, sessionPermissions,
                   pendingRequests, chans, requestMu, activeRequest, nextID, prompts,
                   notifications, dec>>

\* (mutant of ReqReturn: the deferred Del is missing)
ReqReturnKeepsEntry(r) ==
    /\ req[r].pc = "del"
    /\ requestMu' = 0
    /\ req' = [req EXCEPT ![r].pc = "done"]
    /\ UNCHANGED <<mode, allowedTools, agent, legacy, login, autoApproveSessions, sessionPermissions,
                   pendingRequests, chans, activeRequest, nextID, prompts, notifications,
                   dec>>

\* (mutant of ReqReturn: the deferred Unlock is missing)
ReqReturnKeepsLock(r) ==
    /\ req[r].pc = "del"
    /\ pendingRequests' = pendingRequests \ {req[r].permission.ID}
    /\ req' = [req EXCEPT ![r].pc = "done"]
    /\ UNCHANGED <<mode, allowedTools, agent, legacy, login, autoApproveSessions, sessionPermissions, chans,
                   requestMu, activeRequest, nextID, prompts, notifications, dec>>

\* (mutant of ReqReturn: the return through ctx.Done() does not unlock)
ReqReturnCancelKeepsLock(r) ==
    /\ req[r].pc = "del"
    /\ pendingRequests' = pendingRequests \ {req[r].permission.ID}
    /\ requestMu' = IF req[r].via = "cancel" THEN requestMu ELSE 0
    /\ req' = [req EXCEPT ![r].pc = "done"]
    /\ UNCHANGED <<mode, allowedTools, agent, legacy, login, autoApproveSessions, sessionPermissions, chans,
                   activeRequest, nextID, prompts, notifications, dec>>

\* The deferred calls of a call that came to the select, in their order:
\* s.pendingRequests.Del (line 238), then s.requestMu.Unlock (line 175).
ReqReturn(r) ==
    /\ req[r].pc = "del"
    /\ pendingRequests' = pendingRequests \ {req[r].permission.ID}
    /\ requestMu' = 0
    /\ req' = [req EXCEPT ![r].pc = "done"]
    /\ UNCHANGED <<mode, allowedTools, agent, legacy, login, autoApproveSessions, sessionPermissions, chans,
                   activeRequest, nextID, prompts, notifications, dec>>

\* The caller's context ends (cancel or deadline) while its call is queued
\* on the lock or stands at the select.
CtxCancel(r) ==
    /\ req[r].pc \in {"lock", "wait"}
    /\ ~req[r].ctxDone
    /\ req' = [req EXCEPT ![r].ctxDone = TRUE]
    /\ UNCHANGED <<mode, allowedTools, agent, legacy, login, autoApproveSessions, sessionPermissions,
                   pendingRequests, chans, requestMu, activeRequest, nextID, prompts,
                   notifications, dec>>

(***************************************************************************)
(* Grant, GrantPersistent and Deny, lines 94-148.  The three functions     *)
(* differ in the notification, in the value sent, and in GrantPersistent's *)
(* append to the session cache.                                            *)
(***************************************************************************)
\* the requests the approver has seen on the request stream
Published == {prompts[i] : i \in 1..Len(prompts)}

\* (mutant of DecisionValue: only GrantPersistent sends true)
DecisionValuePersistentOnly(kind) == kind = "GrantPersistent"

\* the value the call sends: true for Grant and GrantPersistent, false for Deny
DecisionValue(kind) == kind # "Deny"

\* (mutant of CacheAfter: Deny appends its record as GrantPersistent does)
CacheAfterDenyToo(kind, permission) ==
    IF kind # "Grant"
    THEN Append(sessionPermissions, permission)
    ELSE sessionPermissions

\* (mutant of CacheAfter: Deny takes the records that match its request out
\* of the session cache)
CacheAfterDenyRevokes(kind, permission) ==
    IF kind = "GrantPersistent"
    THEN Append(sessionPermissions, permission)
    ELSE IF kind = "Deny"
    THEN SelectSeq(sessionPermissions, LAMBDA p : ~CacheMatch(p, permission))
    ELSE sessionPermissions

\* lines 104-106: what the call makes of the session cache
CacheAfter(kind, permission) ==
    IF kind = "GrantPersistent"
    THEN Append(sessionPermissions, permission)
    ELSE sessionPermissions

\* (mutant of ActiveAfter: the active request is cleared whatever its ID)
ActiveAfterAnyID(permission) == NoPermission

\* lines 108-112, 125-129, 143-147: the active request is cleared if it is this one
ActiveAfter(permission) ==
    IF activeRequest # NoPermission /\ activeRequest.ID = permission.ID
    THEN NoPermission
    ELSE activeRequest

\* Lines 95-100, 116-121, 133-139: the call publishes its notification and
\* looks the ID up in the pending table.  When the table holds a channel
\* the call stands at the send.  When it holds none the call runs to its
\* end: an ID once removed from the table is never put back, so nothing
\* can come between the lookup and the rest of the call that would change
\* either.  Invocations are numbered in call order.
DecisionBegin(d, kind, permission) ==
    /\ dec[d].pc = "idle"
    /\ d > 1 => dec[d - 1].pc # "idle"
    /\ PublishNotification(
           Notification(permission.ToolCallID, DecisionValue(kind), ~DecisionValue(kind)))
    /\ IF permission.ID \in pendingRequests
       THEN /\ dec' = [dec EXCEPT ![d] =
                         [pc |-> "send", kind |-> kind, permission |-> permission]]
            /\ UNCHANGED <<sessionPermissions, activeRequest>>
       ELSE /\ dec' = [dec EXCEPT ![d] =
                         [pc |-> "done", kind |-> kind, permission |-> permission]]
            /\ sessionPermissions' = CacheAfter(kind, permission)
            /\ activeRequest' = ActiveAfter(permission)
    /\ UNCHANGED <<mode, allowedTools, agent, legacy, login, autoApproveSessions, pendingRequests, chans,
                   requestMu, nextID, prompts, req>>

Grant(d, permission) == DecisionBegin(d, "Grant", permission)

GrantPersistent(d, permission) == DecisionBegin(d, "GrantPersistent", permission)

Deny(d, permission) == DecisionBegin(d, "Deny", permission)

\* (mutant of DecisionSend: the value goes to the channel of the active
\* request, not to the channel found under the call's own ID)
DecisionSendToActive(d) ==
    /\ dec[d].pc = "send"
    /\ activeRequest # NoPermission
    /\ Len(chans[activeRequest.ID]) < 1
    /\ chans' = [chans EXCEPT ![activeRequest.ID] =
                   Append(@, [val |-> DecisionValue(dec[d].kind), by |-> d])]
    /\ dec' = [dec EXCEPT ![d].pc = "finish"]
    /\ UNCHANGED <<mode, allowedTools, agent, legacy, login, autoApproveSessions, sessionPermissions,
                   pendingRequests, requestMu, activeRequest, nextID, prompts,
                   notifications, req>>

\* Lines 101, 122, 140: respCh <- v, which waits while the buffer is full.
\* (by names the sending invocation: bookkeeping, not part of the Go value.)
DecisionSend(d) ==
    /\ dec[d].pc = "send"
    /\ Len(chans[dec[d].permission.ID]) < 1
    /\ chans' = [chans EXCEPT ![dec[d].permission.ID] =
                   Append(@, [val |-> DecisionValue(dec[d].kind), by |-> d])]
    /\ dec' = [dec EXCEPT ![d].pc = "finish"]
    /\ UNCHANGED <<mode, allowedTools, agent, legacy, login, autoApproveSessions, sessionPermissions,
                   pendingRequests, requestMu, activeRequest, nextID, prompts,
                   notifications, req>>

\* (mutant of DecisionFinish: after the send the call looks the ID up again
\* and leaves the session cache alone when the waiter is gone)
DecisionFinishSkipsGone(d) ==
    /\ dec[d].pc = "finish"
    /\ sessionPermissions' = IF dec[d].permission.ID \in pendingRequests
                              THEN CacheAfter(dec[d].kind, dec[d].permission)
                              ELSE sessionPermissions
    /\ activeRequest' = ActiveAfter(dec[d].permission)
    /\ dec' = [dec EXCEPT ![d].pc = "done"]
    /\ UNCHANGED <<mode, allowedTools, agent, legacy, login, autoApproveSessions, pendingRequests, chans,
                   requestMu, nextID, prompts, notifications, req>>

\* Lines 104-112, 125-129, 143-147: the rest of the call after the send.
DecisionFinish(d) ==
    /\ dec[d].pc = "finish"
    /\ sessionPermissions' = CacheAfter(dec[d].kind, dec[d].permission)
    /\ activeRequest' = ActiveAfter(dec[d].permission)
    /\ dec' = [dec EXCEPT ![d].pc = "done"]
    /\ UNCHANGED <<mode, allowedTools, agent, legacy, login, autoApproveSessions, pendingRequests, chans,
                   requestMu, nextID, prompts, notifications, req>>

(***************************************************************************)
(* The administrative operations, lines 251-283.                           *)
(***************************************************************************)
SetMode(m) ==
    /\ mode' = m
    /\ UNCHANGED <<allowedTools, agent, legacy, login, autoApproveSessions, sessionPermissions, pendingRequests,
                   chans, requestMu, activeRequest, nextID, prompts, notifications, req,
                   dec>>

GetMode == mode

SetSkipRequests(skip) == IF skip THEN SetMode(ModeYolo) ELSE SetMode(ModeRegular)

SkipRequests == GetMode = ModeYolo

AutoApproveSession(sessionID) ==
    /\ autoApproveSessions' = autoApproveSessions \cup {sessionID}
    /\ UNCHANGED <<mode, allowedTools, agent, legacy, login, sessionPermissions, pendingRequests, chans,
                   requestMu, activeRequest, nextID, prompts, notifications, req, dec>>

Next ==
    \/ \E r \in Reqs, o \in ReqInputs : ReqStart(r, o)
    \/ \E r \in Reqs : ReqFastPath(r)
    \/ \E r \in Reqs : ReqCacheHit(r)
    \/ \E r \in Reqs : ReqPrompt(r)
    \/ \E r \in Reqs : ReqRecv(r)
    \/ \E r \in Reqs : ReqCtxDone(r)
    \/ \E r \in Reqs : ReqReturn(r)
    \/ \E r \in Reqs : CtxCancel(r)
    \/ \E d \in Decs, p \in Published : Grant(d, p)
    \/ \E d \in Decs, p \in Published : GrantPersistent(d, p)
    \/ \E d \in Decs, p \in Published : Deny(d, p)
    \/ \E d \in Decs : DecisionSend(d)
    \/ \E d \in Decs : DecisionFinish(d)
    \/ \E m \in Modes : SetMode(m)
    \/ \E b \in BOOLEAN : SetSkipRequests(b)
    \/ \E s \in Sessions : AutoApproveSession(s)

Spec == Init /\ [][Next]_vars

(***************************************************************************)
(* Scheduling.  Every call is a goroutine, and the Go scheduler runs a     *)
(* goroutine that can take its next step: a call that can take requestMu   *)
(* takes it (line 174), a select with a ready case takes one (lines        *)
(* 243-248), deferred calls run (lines 175, 238), a send on a channel with *)
(* room goes through (lines 101, 122, 140) and the statements after it     *)
(* run.  Nothing obliges a caller to call, a context to end or the mode    *)
(* to change.                                                              *)
(***************************************************************************)
Fairness ==
    /\ \A r \in Reqs : WF_vars(ReqFastPath(r) \/ ReqCacheHit(r) \/ ReqPrompt(r))
    /\ \A r \in Reqs : WF_vars(ReqRecv(r) \/ ReqCtxDone(r))
    /\ \A r \in Reqs : WF_vars(ReqReturn(r))
    /\ \A d \in Decs : WF_vars(DecisionSend(d))
    /\ \A d \in Decs : WF_vars(DecisionFinish(d))

\* The calls alone, under the configuration the service was constructed with:
\* callers, approver and contexts act, nobody changes the mode or flags a
\* session.
QueueNext ==
    \/ \E r \in Reqs, o \in ReqInputs : ReqStart(r, o)
    \/ \E r \in Reqs : ReqFastPath(r)
    \/ \E r \in Reqs : ReqCacheHit(r)
    \/ \E r \in Reqs : ReqPrompt(r)
    \/ \E r \in Reqs : ReqRecv(r)
    \/ \E r \in Reqs : ReqCtxDone(r)
    \/ \E r \in Reqs : ReqReturn(r)
    \/ \E r \in Reqs : CtxCancel(r)
    \/ \E d \in Decs, p \in Published : Grant(d, p)
    \/ \E d \in Decs, p \in Published : GrantPersistent(d, p)
    \/ \E d \in Decs, p \in Published : Deny(d, p)
    \/ \E d \in Decs : DecisionSend(d)
    \/ \E d \in Decs : DecisionFinish(d)

QueueSpec == Init /\ [][QueueNext]_vars /\ Fairness

(***************************************************************************)
(* The policy of Request over a wider set of inputs: tools on the          *)
(* allowlist by their bare name and by "tool:action", a tool named there   *)
(* with another action, a read action (which passes the Plan-mode gate),   *)
(* and two sessions.  The approver makes one decision call at a time.      *)
(***************************************************************************)
PolicyInputs ==
    { [SessionID |-> "s1", ToolName |-> "view", Action |-> "read", Path |-> PathRepo],
      [SessionID |-> "s1", ToolName |-> "edit", Action |-> "write", Path |-> PathRel],
      [SessionID |-> "s1", ToolName |-> "edit", Action |-> "read", Path |-> PathRel],
      [SessionID |-> "s1", ToolName |-> "bash", Action |-> "execute", Path |-> PathFileA],
      [SessionID |-> "s2", ToolName |-> "bash", Action |-> "execute", Path |-> PathFileA] }

PolicySessions == {o.SessionID : o \in PolicyInputs}

PolicyNext ==
    \/ \E r \in Reqs, o \in PolicyInputs : ReqStart(r, o)
    \/ \E r \in Reqs : ReqFastPath(r)
    \/ \E r \in Reqs : ReqCacheHit(r)
    \/ \E r \in Reqs : ReqPrompt(r)
    \/ \E r \in Reqs : ReqRecv(r)
    \/ \E r \in Reqs : ReqCtxDone(r)
    \/ \E r \in Reqs : ReqReturn(r)
    \/ \E r \in Reqs : CtxCancel(r)
    \/ \E p \in Published : Grant(1, p)
    \/ \E p \in Published : GrantPersistent(1, p)
    \/ \E p \in Published : Deny(1, p)
    \/ DecisionSend(1)
    \/ DecisionFinish(1)
    \/ \E m \in Modes : SetMode(m)
    \/ \E s \in PolicySessions : AutoApproveSession(s)

PolicySpec == Init /\ [][PolicyNext]_vars

(***************************************************************************)
(* The service under calls that cover the rows of the mode gate, lines     *)
(* 156-168: actions that write, execute and read, by a tool that is exempt *)
(* (line 313), a tool on the allowlist and a tool that is neither.         *)
(***************************************************************************)
GateOpts(tool, action) ==
    [SessionID |-> "s1", ToolName |-> tool, Action |-> action, Path |-> PathRepo]

GateInputs ==
    { GateOpts("mcp_sequential-thinking_sequentialthinking", "execute"),
      GateOpts("mcp_sequential-thinking_sequentialthinking", "read"),
      GateOpts("bash", "execute"),
      GateOpts("bash", "read"),
      GateOpts("edit", "write"),
      GateOpts("view", "read") }

GateNext ==
    \/ \E r \in Reqs, o \in GateInputs : ReqStart(r, o)
    \/ \E r \in Reqs : ReqFastPath(r)
    \/ \E r \in Reqs : ReqCacheHit(r)
    \/ \E r \in Reqs : ReqPrompt(r)
    \/ \E r \in Reqs : ReqRecv(r)
    \/ \E r \in Reqs : ReqReturn(r)
    \/ \E p \in Published : Grant(1, p)
    \/ \E p \in Published : GrantPersistent(1, p)
    \/ \E p \in Published : Deny(1, p)
    \/ DecisionSend(1)
    \/ DecisionFinish(1)
    \/ \E m \in Modes : SetMode(m)

GateSpec == Init /\ [][GateNext]_vars

(***************************************************************************)
(* The service with the constructor's skip argument and the calls of the   *)
(* skip API recorded: legacy.last holds the last call of SetSkipRequests   *)
(* or SkipRequests, the mode it found, its argument or result, and the     *)
(* number of calls made.                                                   *)
(***************************************************************************)
MaxSkipCalls == 3

SkipInputs ==
    { [SessionID |-> "s1", ToolName |-> "edit", Action |-> "write", Path |-> PathRel] }

\* (mutant of CallSetSkipRequests: SetSkipRequests(false) leaves Plan mode on)
CallSetSkipRequestsKeepsPlan(skip) ==
    /\ legacy.recorded /\ legacy.last.n < MaxSkipCalls
    /\ IF skip THEN mode' = ModeYolo
       ELSE IF mode = ModePlan THEN mode' = ModePlan ELSE mode' = ModeRegular
    /\ legacy' = [legacy EXCEPT !.last = [op |-> "SetSkipRequests", arg |-> skip,
                                          before |-> mode, result |-> FALSE,
                                          n |-> legacy.last.n + 1]]
    /\ UNCHANGED <<allowedTools, agent, login, autoApproveSessions, sessionPermissions,
                   pendingRequests, chans, requestMu, activeRequest, nextID, prompts,
                   notifications, req, dec>>

\* lines 273-279: SetSkipRequests(skip), the call recorded
CallSetSkipRequests(skip) ==
    /\ legacy.recorded /\ legacy.last.n < MaxSkipCalls
    /\ IF skip THEN mode' = ModeYolo ELSE mode' = ModeRegular
    /\ legacy' = [legacy EXCEPT !.last = [op |-> "SetSkipRequests", arg |-> skip,
                                          before |-> mode, result |-> FALSE,
                                          n |-> legacy.last.n + 1]]
    /\ UNCHANGED <<allowedTools, agent, login, autoApproveSessions, sessionPermissions,
                   pendingRequests, chans, requestMu, activeRequest, nextID, prompts,
                   notifications, req, dec>>

\* lines 281-283: SkipRequests(), the call and its result recorded
CallSkipRequests ==
    /\ legacy.recorded /\ legacy.last.n < MaxSkipCalls
    /\ legacy' = [legacy EXCEPT !.last = [op |-> "SkipRequests", arg |-> FALSE,
                                          before |-> mode, result |-> SkipRequests,
                                          n |-> legacy.last.n + 1]]
    /\ UNCHANGED <<mode, allowedTools, agent, login, autoApproveSessions,
                   sessionPermissions, pendingRequests, chans, requestMu, activeRequest,
                   nextID, prompts, notifications, req, dec>>

\* NewPermissionService(workingDir, skip, allowedTools), skip recorded
SkipInit ==
    /\ ServiceInit /\ agent = IdleAgent /\ login = IdleLogin
    /\ \E skip \in BOOLEAN :
          /\ legacy = [recorded |-> TRUE, skip |-> skip, last |-> NoCall]
          /\ mode = NewMode(skip)

SkipNext ==
    \/ \E skip \in BOOLEAN : CallSetSkipRequests(skip)
    \/ CallSkipRequests
    \/ \E m \in Modes : SetMode(m)
    \/ \E r \in Reqs, o \in SkipInputs : ReqStart(r, o)
    \/ \E r \in Reqs : ReqFastPath(r)

SkipSpec == SkipInit /\ [][SkipNext]_vars

(***************************************************************************)
(* The calls of package agent on the inputs of AgentInputs: each function  *)
(* is called once, FromClaudeCodeName also on the result of                *)
(* ToClaudeCodeName.  The permission service stands by.                    *)
(***************************************************************************)
serviceVars ==
    <<mode, allowedTools, autoApproveSessions, sessionPermissions, pendingRequests,
      chans, requestMu, activeRequest, nextID, prompts, notifications, req, dec>>

CallToClaudeCodeName ==
    /\ "to" \notin agent.called
    /\ agent' = [agent EXCEPT !.called = @ \cup {"to"},
                              !.to = ToClaudeCodeName(agent.name)]
    /\ UNCHANGED <<serviceVars, legacy, login>>

CallFromClaudeCodeName ==
    /\ "from" \notin agent.called
    /\ agent' = [agent EXCEPT !.called = @ \cup {"from"},
                              !.from = FromClaudeCodeName(agent.name)]
    /\ UNCHANGED <<serviceVars, legacy, login>>

\* TestRoundTrip, oauth_tools_test.go lines 129-130
CallRoundTrip ==
    /\ "to" \in agent.called /\ "back" \notin agent.called
    /\ agent' = [agent EXCEPT !.called = @ \cup {"back"},
                              !.back = FromClaudeCodeName(agent.to)]
    /\ UNCHANGED <<serviceVars, legacy, login>>

CallWrapToolsForOAuth ==
    /\ "wrap" \notin agent.called
    /\ agent' = [agent EXCEPT !.called = @ \cup {"wrap"},
                              !.wrapped = WrapToolsForOAuth(agent.tools)]
    /\ UNCHANGED <<serviceVars, legacy, login>>

ToolsInit ==
    /\ ServiceInit /\ mode = ModeRegular /\ agent \in AgentInputs
    /\ legacy = IdleLegacy /\ login = IdleLogin

ToolsNext ==
    \/ CallToClaudeCodeName
    \/ CallFromClaudeCodeName
    \/ CallRoundTrip
    \/ CallWrapToolsForOAuth

ToolsSpec == ToolsInit /\ [][ToolsNext]_vars

(***************************************************************************)
(* Path resolution and the session cache: one tool, action and session     *)
(* over existing files, directories, a missing file, the empty path, "."   *)
(* and relative paths, and beside them the same request with another       *)
(* session, another action and another tool.  The service is in Regular    *)
(* mode and the approver grants persistently.                              *)
(***************************************************************************)
PathOpts(path) ==
    [SessionID |-> "s1", ToolName |-> "bash", Action |-> "execute", Path |-> path]

PathInputs ==
    {PathOpts(path) : path \in {PathFileA, PathFileB, PathRepo, PathNew, PathEmpty,
                                PathDot, PathRel, PathSubFile, PathRelNew}}
    \cup { [PathOpts(PathFileB) EXCEPT !.SessionID = "s2"],
           [PathOpts(PathFileB) EXCEPT !.Action = "read"],
           [PathOpts(PathFileB) EXCEPT !.ToolName = "grep"] }

PathInit == Init /\ mode = ModeRegular

PathNext ==
    \/ \E r \in Reqs, o \in PathInputs : ReqStart(r, o)
    \/ \E r \in Reqs : ReqCacheHit(r)
    \/ \E r \in Reqs : ReqPrompt(r)
    \/ \E r \in Reqs : ReqRecv(r)
    \/ \E r \in Reqs : ReqReturn(r)
    \/ \E p \in Published : GrantPersistent(1, p)
    \/ DecisionSend(1)
    \/ DecisionFinish(1)

PathSpec == PathInit /\ [][PathNext]_vars

(***************************************************************************)
(* The Anthropic login flows: the OAuthAnthropic dialog (part_000), the    *)
(* DeviceFlow onboarding component (part_002), the inline CLI login        *)
(* (part_003) and the plain CLI login (internal/cmd/login.go).  One flow   *)
(* runs; the permission service stands by.  A dialog handles one message   *)
(* per step: a key press, pasted text, or the message a command returned;  *)
(* commands run on their own goroutines, so the messages of two commands   *)
(* arrive in either order and between any two key presses.                 *)
(***************************************************************************)
LoginStep(l) ==
    /\ login' = l
    /\ UNCHANGED <<serviceVars, agent, legacy>>

\* submitCode, part_000 lines 252-275 and part_002 lines 374-397: the text
\* is trimmed, must contain "#", is cut at the first "#", and the part after
\* it must be the State of authParams; then the exchange is started, whose
\* result comes back with or without an error
submitCodeAnyState(l, error) ==
    LET input == TrimSpace(l.input) IN
        IF input = << >> \/ ~ContainsHash(input)
        THEN [l EXCEPT !.action = ActionReportError, !.step = "submitCode"]
        ELSE [l EXCEPT !.State = StateExchanging,
                       !.exchange = [n |-> l.exchange.n + 1,
                                     code |-> SplitN2(input)[1],
                                     state |-> SplitN2(input)[2]],
                       !.msgs = @ \cup {TokenMsg(l.exchange.n + 1, error)},
                       !.action = ActionCmd, !.step = "submitCode"]

submitCode(l, error) ==
    LET input == TrimSpace(l.input) IN
        IF input = << >> \/ ~ContainsHash(input)
        THEN [l EXCEPT !.action = ActionReportError, !.step = "submitCode"]
        ELSE IF SplitN2(input)[2] # l.authParams
        THEN [l EXCEPT !.action = ActionReportError, !.step = "submitCode"]
        ELSE [l EXCEPT !.State = StateExchanging,
                       !.exchange = [n |-> l.exchange.n + 1,
                                     code |-> SplitN2(input)[1],
                                     state |-> SplitN2(input)[2]],
                       !.msgs = @ \cup {TokenMsg(l.exchange.n + 1, error)},
                       !.action = ActionCmd, !.step = "submitCode"]

\* saveKeyAndContinue, part_000 lines 469-486: SetProviderAPIKey stores the
\* token or fails
saveKeyAndContinue(l, saveOk) ==
    IF saveOk
    THEN [l EXCEPT !.saved = TRUE, !.action = ActionSelectModel]
    ELSE [l EXCEPT !.action = ActionReportError]

\* the dialog is open: the parent has not closed it on ActionClose
DialogOpen == login.flow = "dialog" /\ login.action # ActionClose

\* HandleMsg on the Submit key, part_000 lines 166-198
DialogSubmitKey ==
    /\ DialogOpen
    /\ \E error \in BOOLEAN, saveOk \in BOOLEAN :
        CASE login.State = StateReady ->
                /\ login.initiated < MaxInitiate
                /\ LoginStep([login EXCEPT
                       !.initiated = @ + 1,
                       !.msgs = @ \cup {AuthMsg(IF error THEN NoAuthParams
                                                ELSE AuthState(login.initiated + 1), error)},
                       !.action = ActionCmd, !.step = "Submit"])
          [] login.State = StateWaitingForCode ->
                IF TrimSpace(login.input) = << >>
                THEN LoginStep([login EXCEPT !.action = ActionCmd, !.step = "Submit"])
                ELSE LoginStep(submitCode(login, error))
          [] login.State = StateSuccess ->
                LoginStep([saveKeyAndContinue(login, saveOk) EXCEPT !.step = "Submit"])
          [] OTHER ->
                LoginStep([login EXCEPT !.action = ActionNone, !.step = "Submit"])

\* HandleMsg on the Close key, part_000 lines 200-206
DialogCloseKey ==
    /\ DialogOpen
    /\ \E saveOk \in BOOLEAN :
        IF login.State = StateSuccess
        THEN LoginStep([saveKeyAndContinue(login, saveOk) EXCEPT !.step = "Close"])
        ELSE LoginStep([login EXCEPT !.action = ActionClose, !.step = "Close"])

\* HandleMsg on ActionAnthropicAuthInitialized, part_000 lines 209-227
DialogAuthInitialized(m) ==
    /\ DialogOpen
    /\ m \in login.msgs /\ m.kind = "auth"
    /\ IF m.error
       THEN LoginStep([login EXCEPT !.msgs = @ \ {m}, !.State = StateError,
                                    !.action = ActionNone, !.step = "AuthInitialized"])
       ELSE LoginStep([login EXCEPT !.msgs = @ \ {m}, !.authParams = m.state,
                                    !.State = StateWaitingForCode,
                                    !.action = ActionCmd, !.step = "AuthInitialized"])

\* HandleMsg on ActionAnthropicTokenExchanged, part_000 lines 229-237
DialogTokenExchanged(m) ==
    /\ DialogOpen
    /\ m \in login.msgs /\ m.kind = "token"
    /\ \E saveOk \in BOOLEAN :
        IF m.error
        THEN LoginStep([login EXCEPT !.msgs = @ \ {m}, !.State = StateError,
                                     !.action = ActionReportError,
                                     !.step = "TokenExchanged"])
        ELSE LoginStep([saveKeyAndContinue([login EXCEPT !.msgs = @ \ {m},
                                                         !.token = TRUE], saveOk)
                           EXCEPT !.step = "TokenExchanged"])

\* HandleMsg on typed or pasted text, part_000 lines 240-249: the code input
\* takes it only while the dialog waits for the code
DialogInput(str) ==
    /\ DialogOpen
    /\ login.State = StateWaitingForCode
    /\ login.input # str
    /\ LoginStep([login EXCEPT !.input = str, !.action = ActionNone, !.step = "Input"])

\* Update on the tab key, part_002 lines 140-151
FlowTabKey ==
    /\ login.flow = "onboarding"
    /\ login.State = StateReady
    /\ LoginStep([login EXCEPT !.oauth = ~@, !.action = ActionNone, !.step = "Tab"])

\* Submit, part_002 lines 329-366, with submitCode, lines 374-397; the API
\* key of the API-key mode is not part of the OAuth flow, its submission is
\* a command that leaves the component as it is
FlowSubmit ==
    /\ login.flow = "onboarding"
    /\ \E error \in BOOLEAN :
        CASE ~login.oauth /\ login.State = StateReady ->
                LoginStep([login EXCEPT !.action = ActionCmd, !.step = "Submit"])
          [] login.oauth /\ login.State = StateReady ->
                /\ login.initiated < MaxInitiate
                /\ LoginStep([login EXCEPT
                       !.initiated = @ + 1,
                       !.msgs = @ \cup {AuthMsg(IF error THEN NoAuthParams
                                                ELSE AuthState(login.initiated + 1), error)},
                       !.action = ActionCmd, !.step = "Submit"])
          [] login.State = StateWaitingForCode ->
                IF TrimSpace(login.input) = << >>
                THEN LoginStep([login EXCEPT !.action = ActionCmd, !.step = "Submit"])
                ELSE LoginStep(submitCode(login, error))
          [] OTHER ->
                LoginStep([login EXCEPT !.action = ActionNone, !.step = "Submit"])

\* Update on AuthInitiatedMsg, part_002 lines 153-161, and on the
\* DeviceFlowErrorMsg of initiateAuth, lines 168-171 and 429-438
FlowAuthInitiated(m) ==
    /\ login.flow = "onboarding"
    /\ m \in login.msgs /\ m.kind = "auth"
    /\ IF m.error
       THEN LoginStep([login EXCEPT !.msgs = @ \ {m}, !.State = StateError,
                                    !.action = ActionNone, !.step = "DeviceFlowError"])
       ELSE LoginStep([login EXCEPT !.msgs = @ \ {m}, !.authParams = m.state,
                                    !.State = StateWaitingForCode,
                                    !.action = ActionCmd, !.step = "AuthInitiated"])

\* Update on DeviceFlowCompletedMsg, part_002 lines 163-166, and on the
\* DeviceFlowErrorMsg of exchangeCode, lines 168-171 and 440-453
FlowExchanged(m) ==
    /\ login.flow = "onboarding"
    /\ m \in login.msgs /\ m.kind = "token"
    /\ IF m.error
       THEN LoginStep([login EXCEPT !.msgs = @ \ {m}, !.State = StateError,
                                    !.action = ActionNone, !.step = "DeviceFlowError"])
       ELSE LoginStep([login EXCEPT !.msgs = @ \ {m}, !.State = StateSuccess,
                                    !.token = TRUE, !.action = ActionNone,
                                    !.step = "DeviceFlowCompleted"])

\* Update on typed or pasted text, part_002 lines 174-188: the code input
\* takes it in OAuth mode while the component waits for the code
FlowInput(str) ==
    /\ login.flow = "onboarding"
    /\ login.oauth /\ login.State = StateWaitingForCode
    /\ login.input # str
    /\ LoginStep([login EXCEPT !.input = str, !.action = ActionNone, !.step = "Input"])

\* loginAnthropicInline and loginAnthropic up to the input: the check of
\* the stored login and InitiateAuth, part_003 lines 86-100 and login.go
\* lines 217-233
CliInitiate ==
    /\ login.flow \in {"inline", "plain"}
    /\ login.State = StateReady
    /\ \E logged \in BOOLEAN, error \in BOOLEAN :
        IF logged
        THEN LoginStep([login EXCEPT !.State = StateSuccess, !.step = "LoggedIn"])
        ELSE IF error
        THEN LoginStep([login EXCEPT !.State = StateError, !.initiated = @ + 1,
                                     !.action = ActionReportError, !.step = "InitiateAuth"])
        ELSE LoginStep([login EXCEPT !.State = StateWaitingForCode, !.initiated = @ + 1,
                                     !.authParams = AuthState(login.initiated + 1),
                                     !.step = "InitiateAuth"])

\* the enter key of codeInputModel.Update, part_003 lines 60-71, and the
\* rest of loginAnthropicInline up to ExchangeCode, lines 138-158
InlineEnter(str) ==
    /\ login.flow = "inline"
    /\ login.State = StateWaitingForCode
    /\ LET parts == splitOnce(str) IN
           IF Len(parts) # 2
           THEN LoginStep([login EXCEPT !.input = str, !.State = StateError,
                                        !.action = ActionReportError, !.step = "enter"])
           ELSE IF parts[2] # login.authParams
           THEN LoginStep([login EXCEPT !.input = str, !.State = StateError,
                                        !.action = ActionReportError, !.step = "enter"])
           ELSE LoginStep([login EXCEPT !.input = str, !.State = StateExchanging,
                                        !.exchange = [n |-> login.exchange.n + 1,
                                                      code |-> parts[1],
                                                      state |-> login.authParams],
                                        !.step = "enter"])

\* ctrl+c or esc in codeInputModel.Update, part_003 lines 73-74, and the
\* return of "cancelled", lines 142-144
InlineCancel ==
    /\ login.flow = "inline"
    /\ login.State = StateWaitingForCode
    /\ LoginStep([login EXCEPT !.State = StateError, !.action = ActionReportError,
                               !.step = "cancel"])

\* loginAnthropic from the line read to ExchangeCode, login.go lines 252-277
PlainRead(str) ==
    /\ login.flow = "plain"
    /\ login.State = StateWaitingForCode
    /\ LET codeState == TrimSpace(str)
           parts == Split(codeState)
       IN  IF ~ContainsHash(codeState)
           THEN LoginStep([login EXCEPT !.input = str, !.State = StateError,
                                        !.action = ActionReportError, !.step = "read"])
           ELSE IF parts[2] # login.authParams
           THEN LoginStep([login EXCEPT !.input = str, !.State = StateError,
                                        !.action = ActionReportError, !.step = "read"])
           ELSE LoginStep([login EXCEPT !.input = str, !.State = StateExchanging,
                                        !.exchange = [n |-> login.exchange.n + 1,
                                                      code |-> parts[1],
                                                      state |-> parts[2]],
                                        !.step = "read"])

\* the return of ExchangeCode and the saving of the token, part_003 lines
\* 156-173 and login.go lines 277-295
CliExchanged ==
    /\ login.flow \in {"inline", "plain"}
    /\ login.State = StateExchanging
    /\ \E error \in BOOLEAN, saveOk \in BOOLEAN :
        IF error
        THEN LoginStep([login EXCEPT !.State = StateError, !.action = ActionReportError,
                                     !.step = "ExchangeCode"])
        ELSE IF ~saveOk
        THEN LoginStep([login EXCEPT !.State = StateError, !.token = TRUE,
                                     !.action = ActionReportError, !.step = "ExchangeCode"])
        ELSE LoginStep([login EXCEPT !.State = StateSuccess, !.token = TRUE,
                                     !.saved = TRUE, !.step = "ExchangeCode"])

LoginInit ==
    /\ ServiceInit
    /\ agent = IdleAgent
    /\ legacy = IdleLegacy
    /\ login \in {NewLogin(flow) : flow \in Flows}

LoginNext ==
    \/ DialogSubmitKey
    \/ DialogCloseKey
    \/ \E m \in login.msgs : DialogAuthInitialized(m)
    \/ \E m \in login.msgs : DialogTokenExchanged(m)
    \/ \E str \in Inputs : DialogInput(str)
    \/ FlowTabKey
    \/ FlowSubmit
    \/ \E m \in login.msgs : FlowAuthInitiated(m)
    \/ \E m \in login.msgs : FlowExchanged(m)
    \/ \E str \in Inputs : FlowInput(str)
    \/ CliInitiate
    \/ \E str \in Inputs : InlineEnter(str)
    \/ InlineCancel
    \/ \E str \in Inputs : PlainRead(str)
    \/ CliExchanged

LoginSpec == LoginInit /\ [][LoginNext]_vars

(***************************************************************************)
(* Properties.                                                             *)
(***************************************************************************)
\* the requests invocation r has published to the approver
PromptOf(r) == {p \in Published : p.ToolCallID = r}

\* the notifications published so far
Notified == BagToSet(notifications)

\* r's call has passed the mode gate without a fast path being open to it
NeedsPrompt(r) == ~Allowlisted(req[r].opts) /\ ~AutoApproved(req[r].opts)

\* C1 (single flight): in every reachable state the pending request table
\* holds at most one entry, whatever the callers, the decision calls and the
\* cancellations have done.
C1_SingleFlight == Cardinality(pendingRequests) <= 1

\* C1's case: one request stands at the select with its entry in the table
\* while a second one, to which no fast path is open, is queued on the lock,
\* a decision call is under way and a context has ended.
C1_Witness ==
    /\ req[1].pc = "wait" /\ pendingRequests = {req[1].permission.ID}
    /\ req[2].pc = "lock" /\ NeedsPrompt(2) /\ req[2].ctxDone
    /\ \E d \in Decs : dec[d].pc = "send"

\* C2 (prompt ordering): whenever a PermissionRequest is published on the
\* request stream, the Request call of every request published before it
\* has returned.
C2_PromptOrdering ==
    [][Len(prompts') > Len(prompts)
         => \A i \in 1..Len(prompts) : req[prompts[i].ToolCallID].pc = "done"]_vars

\* C2's case: the second prompt was published after the first call ended by
\* cancellation, and the second call is still waiting.
C2_Witness ==
    /\ Len(prompts) = 2
    /\ req[prompts[1].ToolCallID].via = "cancel"
    /\ req[prompts[2].ToolCallID].pc = "wait"

\* r's call read Plan mode for a write or execute action of a tool outside
\* the read-only exemption set
PlanWrite(r) ==
    /\ req[r].pc # "idle"
    /\ req[r].mode = ModePlan
    /\ req[r].opts.Action \in {"write", "execute"}
    /\ req[r].opts.ToolName # "mcp_sequential-thinking_sequentialthinking"

\* C3 (Plan-mode write block): a call that read Plan mode for a write or
\* execute action of a non-exempt tool has returned (false, error) and has
\* published no prompt -- whatever the allowlist, the auto-approve set and the
\* session cache hold.
C3_PlanWriteBlock ==
    \A r \in Reqs :
        PlanWrite(r) =>
            /\ req[r].pc = "done"
            /\ req[r].granted = FALSE
            /\ req[r].err # ErrNil
            /\ PromptOf(r) = {}

\* C3's case: a call was blocked in Plan mode although its session is
\* auto-approved and the session cache holds a persistent grant matching it.
C3_Witness ==
    \E r \in Reqs :
        /\ PlanWrite(r)
        /\ AutoApproved(req[r].opts)
        /\ CacheHit(NewPermission(r, req[r].opts, 0))

\* C4 (Yolo): a call that read Yolo mode has returned (true, nil) without a
\* state in which it waits (so also not for the lock), and no notification
\* and no prompt carries its toolCallID.
C4_Yolo ==
    \A r \in Reqs :
        (req[r].pc # "idle" /\ req[r].mode = ModeYolo) =>
            /\ req[r].pc = "done"
            /\ req[r].granted = TRUE
            /\ req[r].err = ErrNil
            /\ \A n \in Notified : n.ToolCallID # r
            /\ PromptOf(r) = {}

\* C4's case: a call returned in Yolo mode while the other call's prompt was
\* pending, and that prompt is pending still.
C4_Witness ==
    /\ req[2].via = "yolo" /\ req[2].busy
    /\ req[1].pc = "wait" /\ requestMu = 1

\* the select of r's call has received the value a decision call of the
\* given kind sent
Received(r, kind) ==
    /\ req[r].pc \in {"del", "done"}
    /\ req[r].via = "decision"
    /\ dec[req[r].from].kind = kind

\* C5 (grant flow): the published requests carry pairwise distinct IDs; a
\* call whose select received Grant's value returns (true, nil), and the
\* granted notification with the call's toolCallID has been published; and a
\* call returns by the ctx.Done() branch only if its context has ended, so
\* that with a live context the decision is the only way out of the select.
C5_GrantFlow ==
    /\ \A i, j \in 1..Len(prompts) : prompts[i].ID = prompts[j].ID => i = j
    /\ \A r \in Reqs :
        /\ Received(r, "Grant") =>
              /\ req[r].granted = TRUE
              /\ req[r].err = ErrNil
              /\ Notification(r, TRUE, FALSE) \in Notified
        /\ req[r].via = "cancel" => req[r].ctxDone

\* C5's case: in Regular mode a call published its prompt, Grant was called
\* with it, and the call, its context still live, has returned.
C5_Witness ==
    \E r \in Reqs :
        /\ Received(r, "Grant") /\ req[r].pc = "done"
        /\ req[r].mode = ModeRegular /\ ~req[r].ctxDone
        /\ PromptOf(r) # {}

\* C6 (denial is not an error): a call whose select received Deny's value
\* returns (false, nil); the only errors Request returns are the Plan-mode
\* write block, to a call that read Plan mode for a write or execute action of
\* a non-exempt tool, and the context error, to a call that stood at the
\* select with its context ended; and an error is never returned with true.
C6_DenialNotError ==
    \A r \in Reqs :
        /\ Received(r, "Deny") => req[r].granted = FALSE /\ req[r].err = ErrNil
        /\ req[r].err \in {ErrNil, ErrPlanMode, ErrContext}
        /\ req[r].err = ErrPlanMode => PlanWrite(r)
        /\ req[r].err = ErrContext => req[r].ctxDone /\ PromptOf(r) # {}
        /\ req[r].err # ErrNil => req[r].granted = FALSE

\* C6's case: Deny resolved a pending request and its call returned.
C6_Witness ==
    \E r \in Reqs : Received(r, "Deny") /\ req[r].pc = "done" /\ ~req[r].ctxDone

\* C7 (cancellation): a call that leaves the select while its channel is
\* empty returns (false, context error), its context having ended; and once
\* a call has returned, its ID is not in the pending request table.
C7_Cancellation ==
    [][\A r \in Reqs :
         /\ (req[r].pc = "wait" /\ req'[r].pc # "wait"
               /\ chans[req[r].permission.ID] = << >>)
            => /\ req[r].ctxDone
               /\ req'[r].granted = FALSE
               /\ req'[r].err = ErrContext
         /\ req'[r].pc = "done" => req'[r].permission.ID \notin pendingRequests']_vars

\* C7's case: a call was cancelled at the select with no decision delivered
\* and has returned; its entry is gone from the table.
C7_Witness ==
    \E r \in Reqs :
        /\ req[r].pc = "done" /\ req[r].via = "cancel"
        /\ chans[req[r].permission.ID] = << >>
        /\ \A d \in Decs : dec[d].permission.ID # req[r].permission.ID

\* the cache key of permission p is the one of a request with input o:
\* tool, action, session and resolved path
SameKey(p, o) ==
    /\ p.ToolName = o.ToolName
    /\ p.Action = o.Action
    /\ p.SessionID = o.SessionID
    /\ p.Path = ResolveDir(o.Path)

\* a GrantPersistent call for a request with o's key has completed
PersistentlyGranted(o) ==
    \E d \in Decs :
        /\ dec[d].kind = "GrantPersistent"
        /\ dec[d].pc = "done"
        /\ SameKey(dec[d].permission, o)

\* C8 (persistent-grant memoization): when a Regular-mode call gets past the
\* lock after a GrantPersistent call for its (tool, action, session,
\* resolved path) has completed, it returns (true, nil) and publishes no
\* prompt; when no completed GrantPersistent call has its key -- also when
\* one differs from it in the resolved path alone -- and no other fast path is
\* open to it, the call publishes its prompt and waits.
C8_PersistentMemo ==
    [][\A r \in Reqs :
         (req[r].pc = "lock" /\ req'[r].pc # "lock" /\ req[r].mode = ModeRegular) =>
            /\ PersistentlyGranted(req[r].opts) =>
                  /\ req'[r].pc = "done"
                  /\ req'[r].granted = TRUE
                  /\ req'[r].err = ErrNil
                  /\ prompts' = prompts
            /\ (~PersistentlyGranted(req[r].opts) /\ NeedsPrompt(r)) =>
                  /\ req'[r].pc = "wait"
                  /\ req'[r].permission.ToolCallID = r
                  /\ prompts' = Append(prompts, req'[r].permission)]_vars

\* C8's case: the first call was prompted and granted persistently; the
\* second call, with the same tool, action, session and resolved path and
\* with no other fast path open to it, returned (true, nil) from the cache,
\* and the first prompt is still the only one published.
C8_Witness ==
    /\ Received(1, "GrantPersistent")
    /\ req[2].pc = "done" /\ req[2].via = "cache" /\ NeedsPrompt(2)
    /\ SameKey(req[1].permission, req[2].opts)
    /\ req[2].granted = TRUE /\ req[2].err = ErrNil
    /\ Len(prompts) = 1

\* C9 (append before delivery), as claimed: when the Request that
\* GrantPersistent's value was delivered to has returned, the session cache
\* holds its record, and no request with the same key is published after it.
C9_AppendBeforeDelivery ==
    /\ \A r \in Reqs :
          (Received(r, "GrantPersistent") /\ req[r].pc = "done") =>
              \E i \in 1..Len(sessionPermissions) : sessionPermissions[i] = req[r].permission
    /\ \A i, j \in 1..Len(prompts) :
          (i < j /\ Received(prompts[i].ToolCallID, "GrantPersistent")) =>
              ~CacheMatch(prompts[i], prompts[j])

\* the GrantPersistent calls that have made their append
Appended == {d \in Decs : dec[d].kind = "GrantPersistent" /\ dec[d].pc = "done"}

\* C10 (denial is never cached): the session cache holds one record for each
\* GrantPersistent call that has come to its append, and nothing else -- Deny
\* and Grant add nothing; and a call that got past the lock with no fast path
\* open to it and with no GrantPersistent call made for its key has published
\* a prompt, however many identical requests were denied before it.
C10_DenialNotCached ==
    /\ Len(sessionPermissions) = Cardinality(Appended)
    /\ \A i \in 1..Len(sessionPermissions) :
          \E d \in Appended : dec[d].permission = sessionPermissions[i]
    /\ \A r \in Reqs :
          ( /\ req[r].pc \in {"wait", "del", "done"}
            /\ req[r].via \notin {"plan", "yolo"}
            /\ NeedsPrompt(r)
            /\ \A d \in Decs : dec[d].kind = "GrantPersistent"
                                  => ~SameKey(dec[d].permission, req[r].opts) )
          => /\ PromptOf(r) # {}
             /\ req[r].via \in {"", "decision", "cancel"}

\* C10's case: the first request was denied and its call returned (false,
\* nil); the identical second request has published a new prompt and waits;
\* the session cache is empty.
C10_Witness ==
    /\ Received(1, "Deny") /\ req[1].pc = "done"
    /\ req[2].opts = req[1].opts /\ req[2].mode = ModeRegular
    /\ req[2].pc = "wait"
    /\ Len(prompts) = 2
    /\ sessionPermissions = << >>

\* C11 (a stale GrantPersistent is a no-op), as claimed: a GrantPersistent
\* call that finds no pending slot under its ID -- the request was resolved
\* or abandoned before -- leaves the session cache as it was.
C11_StaleGrantPersistentNoOp ==
    [][\A d \in Decs :
         ( /\ dec[d].pc = "idle" /\ dec'[d].pc # "idle"
           /\ dec'[d].kind = "GrantPersistent"
           /\ dec'[d].permission.ID \notin pendingRequests )
         => sessionPermissions' = sessionPermissions]_vars

\* C12 (decision calls never block), as claimed: under the scheduling of
\* Fairness every decision call that stands at its send comes to its end,
\* whatever the waiting Request, its context and the other decision calls do.
C12_DecisionsReturn ==
    \A d \in Decs : (dec[d].pc = "send") ~> (dec[d].pc = "done")

\* C13 (exactly-once delivery): the value a Request's select receives is the
\* value of a decision call made with that Request's own ID (true for Grant),
\* with a nil error, and no decision call's value is received by two
\* Requests; a result once received never changes; and a decision call made
\* on the ID of a Request that has returned comes to its end at once, puts
\* nothing in any channel and leaves every Request as it was.
C13_ExactlyOnce ==
    [][ /\ \A r \in Reqs :
            /\ req'[r].via = "decision" =>
                  /\ dec'[req'[r].from].permission.ID = req'[r].permission.ID
                  /\ req'[r].granted = DecisionValue(dec'[req'[r].from].kind)
                  /\ req'[r].err = ErrNil
                  /\ \A q \in Reqs :
                        (req'[q].via = "decision" /\ req'[q].from = req'[r].from) => q = r
            /\ req[r].pc \in {"del", "done"} =>
                  /\ req'[r].granted = req[r].granted
                  /\ req'[r].err = req[r].err
                  /\ req'[r].from = req[r].from
        /\ \A d \in Decs :
            ( /\ dec[d].pc = "idle" /\ dec'[d].pc # "idle"
              /\ \E r \in Reqs : /\ req[r].pc = "done"
                                 /\ req[r].permission.ID = dec'[d].permission.ID )
            => /\ dec'[d].pc = "done"
               /\ chans' = chans
               /\ req' = req ]_vars

\* C13's case: Grant resolved the first request, whose call returned (true,
\* nil); a Deny made afterwards on the same ID found no slot and has ended,
\* its value in no channel; the second request, waiting meanwhile, has
\* received nothing.
C13_Witness ==
    /\ Received(1, "Grant") /\ req[1].pc = "done" /\ req[1].granted = TRUE
    /\ \E d \in Decs :
          /\ d # req[1].from
          /\ dec[d].kind = "Deny" /\ dec[d].pc = "done"
          /\ dec[d].permission.ID = req[1].permission.ID
    /\ chans[req[1].permission.ID] = << >>
    /\ req[2].pc = "wait" /\ chans[req[2].permission.ID] = << >>

\* C14 (cancellation unblocks the queue): the return of a cancelled call
\* leaves requestMu free; and under the scheduling of Fairness a call that
\* stands at the select with its context ended gives the lock up, and a call
\* queued on the lock meanwhile, with no fast path open to it and no match
\* in the session cache, has its prompt published -- unless the prompt of
\* yet another call gets ahead of it or a GrantPersistent call puts a match
\* in the cache first.  No decision call is needed for it.
C14_CancelUnblocksQueue ==
    /\ [][\A r \in Reqs :
            (req[r].pc = "del" /\ req[r].via = "cancel" /\ req'[r].pc = "done")
               => requestMu' = 0]_vars
    /\ \A r1 \in Reqs :
          (req[r1].pc = "wait" /\ req[r1].ctxDone) ~> (requestMu # r1)
    /\ \A r1, r2 \in Reqs, n \in 0..NumRequests :
          ( /\ r1 # r2 /\ req[r1].pc = "wait" /\ req[r1].ctxDone
            /\ req[r2].pc = "lock" /\ NeedsPrompt(r2)
            /\ ~CacheHit(NewPermission(r2, req[r2].opts, 0))
            /\ Len(prompts) = n )
             ~> ( \/ PromptOf(r2) # {}
                  \/ Len(prompts) > n
                  \/ CacheHit(NewPermission(r2, req[r2].opts, 0)) )

\* C14's case: the first call was cancelled at the select and has returned;
\* no decision call was ever made; the second call, which was queued, has
\* published its prompt and holds the lock.
C14_Witness ==
    /\ req[1].pc = "done" /\ req[1].via = "cancel"
    /\ \A d \in Decs : dec[d].pc = "idle"
    /\ req[2].pc = "wait" /\ ~req[2].ctxDone /\ requestMu = 2
    /\ PromptOf(2) # {}
    /\ sessionPermissions = << >>

\* C15 (fast-path hits are notified), as claimed: a call that returned on a
\* fast path -- allowlist, auto-approved session or session cache -- returned
\* (true, nil), published no prompt, and the granted notification with its
\* toolCallID has been published.
C15_FastPathNotified ==
    \A r \in Reqs :
        (req[r].pc = "done" /\ req[r].via \in {"allowlist", "autoapprove", "cache"}) =>
            /\ req[r].granted = TRUE
            /\ req[r].err = ErrNil
            /\ PromptOf(r) = {}
            /\ Notification(r, TRUE, FALSE) \in Notified

\* C16 (allowlist): a call that read Regular mode and whose tool name, or
\* whose "tool:action" string, is an element of the allowed-tools list never
\* stands at the select; when it has returned it has returned (true, nil);
\* no PermissionRequest of it was built or published, and every entry of the
\* pending table is another call's.
C16_Allowlist ==
    \A r \in Reqs :
        ( /\ req[r].pc # "idle"
          /\ req[r].mode = ModeRegular
          /\ \/ Contains(allowedTools, req[r].opts.ToolName)
             \/ Contains(allowedTools, req[r].opts.ToolName \o ":" \o req[r].opts.Action) )
        => /\ req[r].pc \in {"lock", "done"}
           /\ req[r].pc = "done" => (req[r].granted = TRUE /\ req[r].err = ErrNil)
           /\ PromptOf(r) = {}
           /\ req[r].permission = NoPermission
           /\ \A id \in pendingRequests :
                 \E q \in Reqs \ {r} : req[q].permission.ID = id

\* C16's case: in Regular mode one call matched the list by its bare tool
\* name and one by its "tool:action" string; both returned (true, nil), and
\* nothing was ever published or registered.
C16_Witness ==
    /\ \E r \in Reqs :
          /\ req[r].pc = "done" /\ req[r].mode = ModeRegular
          /\ Contains(allowedTools, req[r].opts.ToolName)
          /\ req[r].granted = TRUE /\ req[r].err = ErrNil
    /\ \E r \in Reqs :
          /\ req[r].pc = "done" /\ req[r].mode = ModeRegular
          /\ ~Contains(allowedTools, req[r].opts.ToolName)
          /\ Contains(allowedTools, req[r].opts.ToolName \o ":" \o req[r].opts.Action)
          /\ req[r].granted = TRUE /\ req[r].err = ErrNil
    /\ prompts = << >> /\ pendingRequests = {} /\ nextID = 1

\* C17 (AutoApproveSession): a call of AutoApproveSession for a session
\* already flagged changes nothing, and a step that changes the flag set
\* adds one session to it and changes nothing else; a call that read Regular
\* mode and gets past the lock with its session flagged returns (true, nil)
\* and nothing is published or registered; a call whose session is not
\* flagged -- whatever other sessions are -- and to which neither the
\* allowlist nor the session cache applies publishes its prompt and waits.
C17_AutoApproveSession ==
    [][ /\ \A s \in autoApproveSessions : ~ENABLED <<AutoApproveSession(s)>>_vars
        /\ autoApproveSessions' # autoApproveSessions =>
              /\ \E s \in PolicySessions \ autoApproveSessions :
                    autoApproveSessions' = autoApproveSessions \cup {s}
              /\ UNCHANGED <<mode, allowedTools, agent, legacy, login, sessionPermissions, pendingRequests,
                             chans, requestMu, activeRequest, nextID, prompts,
                             notifications, req, dec>>
        /\ \A r \in Reqs :
              (req[r].pc = "lock" /\ req'[r].pc # "lock" /\ req[r].mode = ModeRegular) =>
                 /\ req[r].opts.SessionID \in autoApproveSessions =>
                       /\ req'[r].pc = "done"
                       /\ req'[r].granted = TRUE
                       /\ req'[r].err = ErrNil
                       /\ prompts' = prompts
                       /\ pendingRequests' = pendingRequests
                 /\ ( /\ req[r].opts.SessionID \notin autoApproveSessions
                      /\ ~Contains(allowedTools, req[r].opts.ToolName)
                      /\ ~Contains(allowedTools,
                                   req[r].opts.ToolName \o ":" \o req[r].opts.Action)
                      /\ ~CacheHit(NewPermission(r, req[r].opts, 0)) ) =>
                       /\ req'[r].pc = "wait"
                       /\ req'[r].permission.SessionID = req[r].opts.SessionID
                       /\ prompts' = Append(prompts, req'[r].permission) ]_vars

\* C17's case: one session is flagged and the other is not; a Regular-mode
\* call of the flagged session, not on the allowlist, returned (true, nil)
\* without a prompt, and the same request made for the other session has
\* published its prompt and waits.
C17_Witness ==
    \E r, q \in Reqs :
        /\ autoApproveSessions = {req[r].opts.SessionID}
        /\ req[r].pc = "done" /\ req[r].mode = ModeRegular /\ req[r].via = "autoapprove"
        /\ req[r].granted = TRUE /\ req[r].err = ErrNil /\ PromptOf(r) = {}
        /\ req[q].opts.SessionID # req[r].opts.SessionID
        /\ req[q].opts.ToolName = req[r].opts.ToolName
        /\ req[q].opts.Action = req[r].opts.Action
        /\ req[q].opts.Path = req[r].opts.Path
        /\ req[q].pc = "wait" /\ req[q].mode = ModeRegular
        /\ prompts = <<req[q].permission>>

\* r's call read a mode that lets its request past the mode gate: Regular, or
\* Plan with an action other than write and execute or with the exempt tool
PassedGate(r) ==
    /\ req[r].pc # "idle"
    /\ \/ req[r].mode = ModeRegular
       \/ /\ req[r].mode = ModePlan
          /\ \/ req[r].opts.Action \notin {"write", "execute"}
             \/ req[r].opts.ToolName = "mcp_sequential-thinking_sequentialthinking"

\* C18 (the "requested" notification): from the moment a call that passed
\* the mode gate stands at the lock, and whatever becomes of it afterwards,
\* the notification (toolCallID, granted = false, denied = false) has been
\* published exactly once; for a call the gate stopped, and for a call not
\* yet made, no notification with its toolCallID has been published.
C18_RequestedNotification ==
    \A r \in Reqs :
        IF PassedGate(r)
        THEN CopiesIn(Notification(r, FALSE, FALSE), notifications) = 1
        ELSE \A n \in Notified : n.ToolCallID # r

\* C18's case: one call passed the gate in Plan mode with a read action and
\* was fast-pathed, the other was prompted and cancelled; each has exactly
\* one "requested" notification.
C18_Witness ==
    \E r, q \in Reqs :
        /\ req[r].pc = "done" /\ req[r].mode = ModePlan /\ req[r].opts.Action = "read"
        /\ req[r].via = "allowlist"
        /\ req[q].pc = "done" /\ req[q].via = "cancel" /\ PromptOf(q) # {}
        /\ CopiesIn(Notification(r, FALSE, FALSE), notifications) = 1
        /\ CopiesIn(Notification(q, FALSE, FALSE), notifications) = 1

\* C19 (SetMode and calls in flight): a step that changes what GetMode
\* returns changes nothing else, and no other step changes it; a call that
\* read Regular mode and is queued on the lock leaves it either returning
\* (true, nil) on a fast path open to it -- allowlist, flagged session or
\* cache match -- or publishing its prompt; a call that read Regular mode and
\* stands at the select leaves it either with the value at the head of its
\* channel and a nil error or, its context ended, with (false, context
\* error).  The mode written meanwhile plays no part.
C19_SetModeInFlight ==
    [][ /\ GetMode' # GetMode =>
              UNCHANGED <<allowedTools, agent, legacy, login, autoApproveSessions, sessionPermissions,
                          pendingRequests, chans, requestMu, activeRequest, nextID,
                          prompts, notifications, req, dec>>
        /\ \A r \in Reqs :
              (req[r].pc \in {"lock", "wait"} /\ req[r].mode = ModeRegular) =>
                 /\ req'[r].mode = ModeRegular
                 /\ (req[r].pc = "lock" /\ req'[r].pc # "lock") =>
                       \/ /\ req'[r].pc = "done"
                          /\ req'[r].granted = TRUE /\ req'[r].err = ErrNil
                          /\ \/ Allowlisted(req[r].opts)
                             \/ AutoApproved(req[r].opts)
                             \/ CacheHit(NewPermission(r, req[r].opts, 0))
                       \/ /\ req'[r].pc = "wait"
                          /\ prompts' = Append(prompts, req'[r].permission)
                 /\ (req[r].pc = "wait" /\ req'[r].pc # "wait") =>
                       \/ /\ chans[req[r].permission.ID] # << >>
                          /\ req'[r].granted = Head(chans[req[r].permission.ID]).val
                          /\ req'[r].err = ErrNil
                       \/ /\ req[r].ctxDone
                          /\ req'[r].granted = FALSE /\ req'[r].err = ErrContext ]_vars

\* C19's case: the first call read Regular mode and waits for a decision on
\* its execute request; since then the mode was set to Yolo, under which the
\* second call was approved at the gate, and then to Plan; the first call
\* waits still, neither approved nor denied.
C19_Witness ==
    /\ req[1].mode = ModeRegular /\ req[1].pc = "wait" /\ ~req[1].ctxDone
    /\ req[1].opts.Action = "execute"
    /\ chans[req[1].permission.ID] = << >>
    /\ req[2].mode = ModeYolo /\ req[2].pc = "done"
    /\ GetMode = ModePlan

\* C20 (IDs and the pending table): the PermissionRequests built so far --
\* published or answered from the cache -- carry pairwise distinct IDs; an
\* entry enters the pending table under an ID no call has used, in the step
\* in which its call comes to the select, and is there as long as the call
\* stands at the select; an entry leaves the table only in the return of the
\* call that made it, and every call that leaves the select, by a decision
\* or by cancellation, finds its entry still there and removes it in its
\* return; and when every call made has returned the table is empty.
C20_PendingEntryLifecycle ==
    [][ /\ \A r, q \in Reqs :
              ( /\ req'[r].permission # NoPermission
                /\ req'[q].permission # NoPermission
                /\ req'[r].permission.ID = req'[q].permission.ID ) => r = q
        /\ \A id \in pendingRequests' \ pendingRequests :
              /\ \A r \in Reqs : req[r].permission.ID # id
              /\ \E r \in Reqs : /\ req[r].pc = "lock" /\ req'[r].pc = "wait"
                                 /\ req'[r].permission.ID = id
        /\ \A id \in pendingRequests \ pendingRequests' :
              \E r \in Reqs : /\ req[r].permission.ID = id
                              /\ req[r].pc = "del" /\ req'[r].pc = "done"
        /\ \A r \in Reqs :
              /\ req'[r].pc \in {"wait", "del"} =>
                    req'[r].permission.ID \in pendingRequests'
              /\ (req[r].pc = "del" /\ req'[r].pc = "done") =>
                    /\ req[r].via \in {"decision", "cancel"}
                    /\ req[r].permission.ID \in pendingRequests
                    /\ req[r].permission.ID \notin pendingRequests'
        /\ (\A r \in Reqs : req'[r].pc \in {"idle", "done"}) => pendingRequests' = {} ]_vars

\* C20's case: one call was resolved by a decision and the other by
\* cancellation; their requests had different IDs, both calls have returned
\* and the table is empty.
C20_Witness ==
    \E r, q \in Reqs :
        /\ req[r].pc = "done" /\ req[r].via = "decision"
        /\ req[q].pc = "done" /\ req[q].via = "cancel"
        /\ req[r].permission.ID # req[q].permission.ID
        /\ pendingRequests = {}

\* C21 (only the rendezvous blocks), as claimed: a started call that cannot
\* take its next step is held up by a rendezvous wait and by nothing else --
\* a Request queued on requestMu waits for the holder, which stands at the
\* select or runs its deferred calls, and a decision call whose send finds
\* the buffer full waits for the Request that stands at the select on that
\* channel and will empty it.
C21_OnlyRendezvousBlocks ==
    /\ \A r \in Reqs :
          (req[r].pc = "lock" /\ requestMu # 0) =>
              /\ requestMu \in Reqs
              /\ req[requestMu].pc \in {"wait", "del"}
    /\ \A d \in Decs :
          (dec[d].pc = "send" /\ Len(chans[dec[d].permission.ID]) >= 1) =>
              \E r \in Reqs : /\ req[r].pc = "wait"
                              /\ req[r].permission.ID = dec[d].permission.ID

\* a path is absolute when its first component is the root
IsAbs(path) == Len(path) > 0 /\ path[1] = "/"

\* C22 (path resolution), as claimed: the PermissionRequest a call builds --
\* the one it publishes and matches against the session cache -- carries, for
\* an absolute path of an existing regular file, the file's parent directory;
\* for an absolute path of an existing directory, that directory; and for
\* the empty path and for every relative path, the working directory.
C22_PathResolution ==
    \A r \in Reqs :
        req[r].permission # NoPermission =>
            LET path == req[r].opts.Path
                dir == req[r].permission.Path
            IN  /\ (IsAbs(path) /\ path \in Files) => dir = SubSeq(path, 1, Len(path) - 1)
                /\ (IsAbs(path) /\ path \in Directories) => dir = path
                /\ ~IsAbs(path) => dir = WorkingDir

\* the fixed lowercase list (TestRoundTrip, oauth_tools_test.go line 126)
ListedNames ==
    { <<"b", "a", "s", "h">>, <<"r", "e", "a", "d">>, <<"w", "r", "i", "t", "e">>,
      <<"e", "d", "i", "t">>, <<"g", "r", "e", "p">>, <<"g", "l", "o", "b">>,
      <<"v", "i", "e", "w">> }

\* C23 (round trip): for a name x of the fixed lowercase list,
\* FromClaudeCodeName(ToClaudeCodeName(x)) = x.
C23_RoundTrip ==
    ("back" \in agent.called /\ agent.name \in ListedNames) => agent.back = agent.name

\* C23's case: bash went to Bash and came back as bash.
C23_Witness ==
    /\ "back" \in agent.called
    /\ agent.name = <<"b", "a", "s", "h">>
    /\ agent.to = <<"B", "a", "s", "h">>
    /\ agent.back = <<"b", "a", "s", "h">>

\* two names differ in the case of their letters at most
SameLetters(a, b) ==
    /\ Len(a) = Len(b)
    /\ \A i \in 1..Len(a) : ToLowerChar(a[i]) = ToLowerChar(b[i])

\* a lowercase name with its first letter in upper case
Capitalised(name) ==
    [i \in 1..Len(name) |-> IF i = 1 THEN ToUpperChar(name[i]) ELSE name[i]]

\* C24 (the two mappings): ToClaudeCodeName gives, for a name that is a
\* listed name in any casing, that listed name capitalised, and gives every
\* other name back unchanged; FromClaudeCodeName gives, for a name that is
\* a capitalised form in any casing, the listed lowercase name, and gives
\* every other name back unchanged.
C24_NameMapping ==
    /\ "to" \in agent.called =>
          IF \E n \in ListedNames : SameLetters(agent.name, n)
          THEN \E n \in ListedNames : /\ SameLetters(agent.name, n)
                                      /\ agent.to = Capitalised(n)
          ELSE agent.to = agent.name
    /\ "from" \in agent.called =>
          IF \E n \in ListedNames : SameLetters(agent.name, Capitalised(n))
          THEN \E n \in ListedNames : /\ SameLetters(agent.name, Capitalised(n))
                                      /\ agent.from = n
          ELSE agent.from = agent.name

\* C24's case: a listed name in mixed casing, neither the lowercase nor the
\* capitalised form, was given to both functions.
C24_Witness ==
    /\ {"to", "from"} \subseteq agent.called
    /\ agent.name = <<"w", "R", "i", "T", "e">>
    /\ agent.to = <<"W", "r", "i", "t", "e">>
    /\ agent.from = <<"w", "r", "i", "t", "e">>

\* the tool behind an element of the wrapped list
Unwrapped(tool) == IF "renamedName" \in DOMAIN tool THEN tool.AgentTool ELSE tool

\* C25 (WrapToolsForOAuth): the result has the length of the input; its
\* i-th element stands for the i-th tool of the input and reports the name
\* ToClaudeCodeName gives for that tool's name, with that tool's description
\* and parameters; and where ToClaudeCodeName leaves the name as it is, the
\* element is the tool itself.
C25_WrapTools ==
    "wrap" \in agent.called =>
        /\ Len(agent.wrapped) = Len(agent.tools)
        /\ \A i \in 1..Len(agent.tools) :
              /\ Unwrapped(agent.wrapped[i]) = agent.tools[i]
              /\ Info(agent.wrapped[i]).Name = ToClaudeCodeName(agent.tools[i].Name)
              /\ Info(agent.wrapped[i]).Description = agent.tools[i].Description
              /\ Info(agent.wrapped[i]).Parameters = agent.tools[i].Parameters
              /\ ToClaudeCodeName(agent.tools[i].Name) = agent.tools[i].Name =>
                    agent.wrapped[i] = agent.tools[i]

\* C25's case: a list of a tool that is renamed and one that is not.
C25_Witness ==
    /\ "wrap" \in agent.called
    /\ Len(agent.tools) = 2
    /\ agent.tools[1].Name = <<"b", "a", "s", "h">>
    /\ agent.tools[2].Name = <<"c", "u", "s", "t", "o", "m">>
    /\ Info(agent.wrapped[1]).Name = <<"B", "a", "s", "h">>
    /\ agent.wrapped[1] # agent.tools[1]
    /\ agent.wrapped[2] = agent.tools[2]

\* C26 (soundness of approval): a call of Request comes to return true
\* only (a) at the mode gate with the mode Yolo, (b) past the lock with its
\* tool on the allowlist, (c) past the lock with its session auto-approved,
\* (d) past the lock with a record in the session cache of its tool, action,
\* session and resolved path, or (e) at the select, from a call of Grant or
\* GrantPersistent on the ID of the prompt it published that has sent; a
\* call on whose ID only Deny has been called does not come to return true.
C26_ApprovalSound ==
    [][\A r \in Reqs :
          (~req[r].granted /\ req'[r].granted) =>
              \/ req[r].pc = "idle" /\ mode = ModeYolo
              \/ /\ req[r].pc = "lock"
                 /\ \/ Contains(allowedTools, req[r].opts.ToolName \o ":" \o req[r].opts.Action)
                    \/ Contains(allowedTools, req[r].opts.ToolName)
              \/ req[r].pc = "lock" /\ req[r].opts.SessionID \in autoApproveSessions
              \/ /\ req[r].pc = "lock"
                 /\ \E i \in 1..Len(sessionPermissions) :
                       /\ sessionPermissions[i].ToolName = req[r].opts.ToolName
                       /\ sessionPermissions[i].Action = req[r].opts.Action
                       /\ sessionPermissions[i].SessionID = req[r].opts.SessionID
                       /\ sessionPermissions[i].Path = ResolveDir(req[r].opts.Path)
              \/ /\ req[r].pc = "wait"
                 /\ req[r].permission \in Published
                 /\ \E d \in Decs :
                       /\ dec[d].kind \in {"Grant", "GrantPersistent"}
                       /\ dec[d].permission.ID = req[r].permission.ID
                       /\ dec[d].pc \in {"finish", "done"}
                       /\ req'[r].from = d
    ]_vars

\* C26's case: a call returned true from a Grant or GrantPersistent on its
\* ID although a Deny was called on that ID as well.
C26_Witness ==
    \E r \in Reqs :
        /\ req[r].pc = "done" /\ req[r].granted /\ req[r].via = "decision"
        /\ \E d \in Decs : dec[d].kind = "Deny" /\ dec[d].permission.ID = req[r].permission.ID

\* C27 (policy table of the mode gate): a call that reads Regular mode
\* goes on to the lock; a call that reads Plan mode with an action other
\* than write and execute, or with the exempt tool, goes on to the lock;
\* a call returns the error "write operations are not allowed in plan mode"
\* exactly when it reads Plan mode with a write or execute action of a tool
\* other than the exempt one, and then it returns false; and a call that
\* went on in Regular or Plan mode and finds no fast path publishes its
\* prompt and waits.
C27_PolicyTable ==
    [][\A r \in Reqs :
          /\ (req[r].pc = "idle" /\ req'[r].pc # "idle") =>
                LET o == req'[r].opts
                    blocked == /\ mode = ModePlan
                               /\ o.Action \in {"write", "execute"}
                               /\ o.ToolName # "mcp_sequential-thinking_sequentialthinking"
                IN  /\ (mode = ModeRegular \/ (mode = ModePlan /\ ~blocked)) =>
                          /\ req'[r].pc = "lock"
                          /\ req'[r].err = ErrNil
                    /\ blocked =>
                          /\ req'[r].pc = "done"
                          /\ req'[r].granted = FALSE
                          /\ req'[r].err = "write operations are not allowed in plan mode"
                    /\ req'[r].err = "write operations are not allowed in plan mode" => blocked
          /\ (req[r].pc = "lock" /\ req'[r].pc # "lock") =>
                LET o == req[r].opts
                    fast == \/ Contains(allowedTools, o.ToolName \o ":" \o o.Action)
                            \/ Contains(allowedTools, o.ToolName)
                            \/ o.SessionID \in autoApproveSessions
                            \/ \E i \in 1..Len(sessionPermissions) :
                                  /\ sessionPermissions[i].ToolName = o.ToolName
                                  /\ sessionPermissions[i].Action = o.Action
                                  /\ sessionPermissions[i].SessionID = o.SessionID
                                  /\ sessionPermissions[i].Path = ResolveDir(o.Path)
                IN  /\ req[r].mode \in {ModeRegular, ModePlan}
                    /\ ~fast => /\ req'[r].pc = "wait"
                                /\ prompts' = Append(prompts, req'[r].permission)
                    /\ fast => req'[r].pc = "done" /\ req'[r].granted
    ]_vars

\* C27's case: a call read Plan mode with an execute action of the exempt
\* tool, went on, and waits on the prompt it published.
C27_Witness ==
    \E r \in Reqs :
        /\ req[r].mode = ModePlan
        /\ req[r].opts.Action = "execute"
        /\ req[r].opts.ToolName = "mcp_sequential-thinking_sequentialthinking"
        /\ req[r].pc = "wait"
        /\ PromptOf(r) # {}

\* C28 (the session cache is append-only): a step keeps every record of
\* the session cache at its place; a step that changes the cache adds
\* exactly one record at the end, and it is a step of a GrantPersistent
\* call that adds its own request -- so no step of Grant, Deny, Request,
\* SetMode or AutoApproveSession changes the cache.
C28_CacheAppendOnly ==
    [][/\ Len(sessionPermissions') >= Len(sessionPermissions)
       /\ SubSeq(sessionPermissions', 1, Len(sessionPermissions)) = sessionPermissions
       /\ sessionPermissions' # sessionPermissions =>
             /\ Len(sessionPermissions') = Len(sessionPermissions) + 1
             /\ \E d \in Decs :
                   /\ dec[d].pc # "done" /\ dec'[d].pc = "done"
                   /\ dec'[d].kind = "GrantPersistent"
                   /\ sessionPermissions'[Len(sessionPermissions')] = dec'[d].permission
                   /\ \A e \in Decs \ {d} : dec'[e] = dec[e]
             /\ req' = req
             /\ mode' = mode
             /\ autoApproveSessions' = autoApproveSessions
    ]_vars

\* C28's case: the record a GrantPersistent call added is still in the
\* cache after a Deny call for the same request has run to its end.
C28_Witness ==
    /\ dec[1].kind = "GrantPersistent" /\ dec[1].pc = "done"
    /\ dec[2].kind = "Deny" /\ dec[2].pc = "done"
    /\ dec[2].permission = dec[1].permission
    /\ sessionPermissions = <<dec[1].permission>>

\* the directory part of a path with more than one component
Parent(path) == SubSeq(path, 1, Len(path) - 1)

\* a GrantPersistent call has completed on the prompt of a call for the
\* existing file F, with the tool, action and session of o
GrantedForFile(F, o) ==
    \E d \in Decs, r0 \in Reqs :
        /\ dec[d].kind = "GrantPersistent" /\ dec[d].pc = "done"
        /\ dec[d].permission \in PromptOf(r0)
        /\ req[r0].opts.Path = F
        /\ req[r0].opts.ToolName = o.ToolName
        /\ req[r0].opts.Action = o.Action
        /\ req[r0].opts.SessionID = o.SessionID

\* C29 (directory-grained matching): when a call gets past the lock after
\* a GrantPersistent call has completed on the prompt for an existing file
\* F with the call's tool, action and session, and the call's path is
\* another existing file in F's directory or that directory itself, the
\* call returns (true, nil) and publishes no prompt; when every
\* GrantPersistent call made differs from the call in tool, action or
\* session, the call publishes its prompt and waits.
C29_DirectoryGrained ==
    [][\A r \in Reqs :
          (req[r].pc = "lock" /\ req'[r].pc # "lock") =>
              LET o == req[r].opts
              IN  /\ (\E F \in Files :
                         /\ Len(F) > 1
                         /\ GrantedForFile(F, o)
                         /\ \/ o.Path \in Files /\ o.Path # F /\ Len(o.Path) > 1
                                                /\ Parent(o.Path) = Parent(F)
                            \/ o.Path \in Directories /\ o.Path = Parent(F))
                       => /\ req'[r].pc = "done"
                          /\ req'[r].granted = TRUE
                          /\ req'[r].err = ErrNil
                          /\ prompts' = prompts
                  /\ (\A d \in Decs :
                         dec[d].kind = "GrantPersistent" =>
                             \/ dec[d].permission.ToolName # o.ToolName
                             \/ dec[d].permission.Action # o.Action
                             \/ dec[d].permission.SessionID # o.SessionID)
                       => /\ req'[r].pc = "wait"
                          /\ prompts' = Append(prompts, req'[r].permission)
    ]_vars

\* C29's case: the first call, for the file /repo/a.txt, was granted
\* persistently; the second call, for the file /repo/b.txt with the same
\* tool, action and session, returned (true, nil) with one prompt published.
C29_Witness ==
    /\ req[1].opts.Path = PathFileA
    /\ Received(1, "GrantPersistent")
    /\ req[2].opts = [req[1].opts EXCEPT !.Path = PathFileB]
    /\ req[2].pc = "done" /\ req[2].granted = TRUE /\ req[2].err = ErrNil
    /\ Len(prompts) = 1

\* C29's other case: the second call, for /repo/b.txt in another session,
\* waits on a prompt of its own.
C29_WitnessOtherSession ==
    /\ req[1].opts.Path = PathFileA
    /\ Received(1, "GrantPersistent") /\ dec[1].pc = "done"
    /\ req[2].opts.Path = PathFileB
    /\ req[2].opts.SessionID # req[1].opts.SessionID
    /\ req[2].pc = "wait"
    /\ Len(prompts) = 2

\* C30 (no deadlock while the lock is held), as claimed: a decision call
\* that stands at its send while the Request of its ID holds the global
\* lock and is blocked at the select, its channel empty and its context
\* alive, comes to its end under the scheduling of Fairness.
C30_DecisionsCompleteUnderLock ==
    \A d \in Decs :
        ( /\ dec[d].pc = "send"
          /\ \E r \in Reqs : /\ requestMu = r
                             /\ req[r].pc = "wait"
                             /\ ~req[r].ctxDone
                             /\ req[r].permission.ID = dec[d].permission.ID
                             /\ Len(chans[req[r].permission.ID]) = 0 )
        ~> (dec[d].pc = "done")

\* C31 (fast paths queue behind a pending prompt): a call that read
\* Regular mode leaves the lock -- on the allowlist, the auto-approve set,
\* the session cache or to its own prompt -- only in a state in which no
\* other call holds the lock and the pending table is empty; every other
\* call that published a prompt has by then returned, from a decision or
\* from the end of its context.
C31_FastPathsQueue ==
    [][\A r \in Reqs :
          (req[r].pc = "lock" /\ req'[r].pc # "lock" /\ req[r].mode = ModeRegular) =>
              /\ requestMu = 0
              /\ pendingRequests = {}
              /\ \A r0 \in Reqs \ {r} :
                    PromptOf(r0) # {} =>
                        /\ req[r0].pc = "done"
                        /\ req[r0].via \in {"decision", "cancel"}
    ]_vars

\* C31's case: a call whose tool is on the allowlist stands at the lock
\* while another call's prompt is pending.
C31_Witness ==
    \E r, r0 \in Reqs :
        /\ req[r0].pc = "wait" /\ requestMu = r0
        /\ req[r0].permission.ID \in pendingRequests
        /\ req[r].pc = "lock" /\ req[r].mode = ModeRegular
        /\ Contains(allowedTools, req[r].opts.ToolName \o ":" \o req[r].opts.Action)

\* C32 (cancellation is observed only at the select): the end of a call's
\* context while the call is queued for the lock leaves the call queued; a
\* call whose context has ended leaves the lock only when the mutex is free,
\* and then returns (true, nil) if a fast path is open to it and otherwise
\* registers its channel, publishes its prompt and goes to the select; and
\* a call returns the context's error only from the select, with its
\* prompt published.
C32_CancelOnlyAtSelect ==
    [][\A r \in Reqs :
          /\ (req[r].pc = "lock" /\ ~req[r].ctxDone /\ req'[r].ctxDone) =>
                req'[r].pc = "lock"
          /\ (req[r].pc = "lock" /\ req[r].ctxDone /\ req'[r].pc # "lock") =>
                LET o == req[r].opts
                    fast == \/ Contains(allowedTools, o.ToolName \o ":" \o o.Action)
                            \/ Contains(allowedTools, o.ToolName)
                            \/ o.SessionID \in autoApproveSessions
                            \/ \E i \in 1..Len(sessionPermissions) :
                                  /\ sessionPermissions[i].ToolName = o.ToolName
                                  /\ sessionPermissions[i].Action = o.Action
                                  /\ sessionPermissions[i].SessionID = o.SessionID
                                  /\ sessionPermissions[i].Path = ResolveDir(o.Path)
                IN  /\ requestMu = 0
                    /\ fast => /\ req'[r].pc = "done"
                               /\ req'[r].granted = TRUE
                               /\ req'[r].err = ErrNil
                    /\ ~fast => /\ req'[r].pc = "wait"
                                /\ req'[r].permission.ID \in pendingRequests'
                                /\ prompts' = Append(prompts, req'[r].permission)
          /\ (req[r].err # ErrContext /\ req'[r].err = ErrContext) =>
                /\ req[r].pc = "wait"
                /\ req[r].ctxDone
                /\ req'[r].granted = FALSE
                /\ req[r].permission \in Published
    ]_vars

\* C32's case: a call's context ended while it was queued behind another
\* call's prompt, and the call still stands at the lock.
C32_Witness ==
    \E r, r0 \in Reqs :
        /\ req[r0].pc = "wait" /\ requestMu = r0
        /\ req[r].pc = "lock" /\ req[r].ctxDone

\* C32's case, later: both calls have returned the context's error and
\* both prompts were published.
C32_WitnessReturned ==
    /\ \A r \in Reqs : req[r].pc = "done" /\ req[r].err = ErrContext /\ PromptOf(r) # {}
    /\ Len(prompts) = NumRequests

\* C33 (decision against cancellation): a call that left the select
\* returns either the value of a decision call made on its ID, with a nil
\* error, or false with the context's error, its context having ended; a
\* decision call has published its notification -- granted for Grant and
\* GrantPersistent, denied for Deny -- from its first step on, whichever way
\* the waiter leaves; and a GrantPersistent call that found the channel has,
\* at its end, its request in the session cache, whichever way the waiter
\* left.
C33_DecisionCancelRace ==
    /\ \A r \in Reqs :
          (req[r].pc \in {"del", "done"} /\ req[r].permission \in Published) =>
              \/ /\ req[r].via = "decision"
                 /\ req[r].err = ErrNil
                 /\ dec[req[r].from].permission.ID = req[r].permission.ID
                 /\ req[r].granted = (dec[req[r].from].kind \in {"Grant", "GrantPersistent"})
              \/ /\ req[r].via = "cancel"
                 /\ req[r].ctxDone
                 /\ req[r].granted = FALSE
                 /\ req[r].err = ErrContext
    /\ \A d \in Decs :
          dec[d].pc # "idle" =>
              [ToolCallID |-> dec[d].permission.ToolCallID,
               Granted |-> dec[d].kind \in {"Grant", "GrantPersistent"},
               Denied |-> dec[d].kind = "Deny"] \in Notified
    /\ \A d \in Decs :
          (dec[d].pc = "done" /\ dec[d].kind = "GrantPersistent") =>
              \E i \in 1..Len(sessionPermissions) : sessionPermissions[i] = dec[d].permission

\* C33's case: GrantPersistent found the channel and sent, the waiter's
\* select took ctx.Done() and the call returned the context's error; the
\* value lies in the channel, the granted notification is published and the
\* record is in the session cache.
C33_Witness ==
    \E r \in Reqs, d \in Decs :
        /\ req[r].pc = "done" /\ req[r].via = "cancel" /\ req[r].err = ErrContext
        /\ dec[d].kind = "GrantPersistent" /\ dec[d].pc = "done"
        /\ dec[d].permission = req[r].permission
        /\ Len(chans[req[r].permission.ID]) = 1
        /\ [ToolCallID |-> r, Granted |-> TRUE, Denied |-> FALSE] \in Notified
        /\ sessionPermissions = <<req[r].permission>>

\* the proviso of C34: a call at the select gets a decision into its
\* channel, or its context ends, or it leaves the select
DecidedOrCancelled ==
    \A r0 \in Reqs :
        (req[r0].pc = "wait") ~>
            \/ req[r0].pc # "wait"
            \/ req[r0].ctxDone
            \/ Len(chans[req[r0].permission.ID]) > 0

\* C34 (lock release and progress): a call that has returned does not
\* hold the global lock; the lock is given up only by its holder, in the
\* step in which the holder returns, and the holder's entry is out of the
\* pending table when the lock is free again; and under the scheduling of
\* Fairness, if every call at the select gets a decision or has its context
\* ended, every call queued for the lock comes to take it.
C34_LockReleaseAndProgress ==
    /\ [](\A r \in Reqs : req[r].pc = "done" => requestMu # r)
    /\ [][\A r \in Reqs :
             (requestMu = r /\ requestMu' # r) =>
                 /\ requestMu' = 0
                 /\ req[r].pc = "del" /\ req'[r].pc = "done"
                 /\ req[r].permission.ID \notin pendingRequests'
       ]_vars
    /\ (DecidedOrCancelled => \A r \in Reqs : (req[r].pc = "lock") ~> (req[r].pc # "lock"))

\* C34's case: the first call's context ended at the select and the call
\* returned; the second call, which was queued behind it, holds the lock
\* and waits on its own prompt.
C34_Witness ==
    /\ req[1].pc = "done" /\ req[1].via = "cancel"
    /\ req[2].pc = "wait" /\ requestMu = 2
    /\ pendingRequests = {req[2].permission.ID}
    /\ Len(prompts) = 2

\* C35 (life of the active request): the active request changes in two
\* kinds of step only -- a call registers its channel and publishes its
\* prompt, and the active request becomes that call's request; or a decision
\* call made with the ID of the active request comes to its end, and the
\* active request becomes nil.  A decision call made with another ID leaves
\* it alone, and so do the steps by which a cancelled call leaves the select
\* and returns: while no decision call with its ID has ended and no later
\* prompt was published, the request of a call that returned the context's
\* error is still the active request.
C35_ActiveRequestLifecycle ==
    /\ [][/\ activeRequest' # activeRequest =>
                \/ \E r \in Reqs :
                      /\ req[r].pc = "lock" /\ req'[r].pc = "wait"
                      /\ activeRequest' = req'[r].permission
                      /\ req'[r].permission.ID \in pendingRequests'
                      /\ req'[r].permission.ID \notin pendingRequests
                \/ /\ activeRequest' = NoPermission
                   /\ \E d \in Decs :
                         /\ dec[d].pc # "done" /\ dec'[d].pc = "done"
                         /\ dec'[d].permission.ID = activeRequest.ID
          /\ \A d \in Decs :
                (dec[d].pc # "done" /\ dec'[d].pc = "done") =>
                    IF activeRequest # NoPermission
                       /\ dec'[d].permission.ID = activeRequest.ID
                    THEN activeRequest' = NoPermission
                    ELSE activeRequest' = activeRequest
          /\ \A r \in Reqs :
                (req[r].pc = "wait" /\ req'[r].pc = "del") =>
                    activeRequest' = activeRequest
          /\ \A r \in Reqs :
                (req[r].pc = "del" /\ req'[r].pc = "done") =>
                    activeRequest' = activeRequest
       ]_vars
    /\ [](\A r \in Reqs :
            ( /\ req[r].pc = "done" /\ req[r].via = "cancel"
              /\ prompts[Len(prompts)] = req[r].permission
              /\ \A d \in Decs : dec[d].pc = "done" =>
                                    dec[d].permission.ID # req[r].permission.ID )
            => activeRequest = req[r].permission)

\* C35's case: a prompting call has returned the context's error, a
\* decision call made with another ID has ended, and the call's request is
\* still the active request.
C35_Witness ==
    \E r \in Reqs, d \in Decs :
        /\ req[r].pc = "done" /\ req[r].via = "cancel"
        /\ dec[d].pc = "done" /\ dec[d].permission.ID # req[r].permission.ID
        /\ pendingRequests = {}
        /\ activeRequest = req[r].permission

\* C36 (skip API and initial mode): the service starts in Yolo mode when
\* NewPermissionService was given skip = true and in Regular mode when it
\* was given false; a call of SkipRequests returns true exactly when the
\* mode is Yolo and leaves the mode alone; a call of SetSkipRequests leaves
\* the mode Yolo for true and Regular for false, whatever the mode was; and
\* a call of Request made in the Regular mode that SetSkipRequests(false)
\* set in place of Plan mode goes on to the lock with no error.
C36_LegacySkip ==
    /\ legacy.skip => mode = ModeYolo
    /\ ~legacy.skip => mode = ModeRegular
    /\ [][/\ (legacy'.last.n # legacy.last.n /\ legacy'.last.op = "SkipRequests") =>
                /\ legacy'.last.result = (mode = ModeYolo)
                /\ mode' = mode
          /\ (legacy'.last.n # legacy.last.n /\ legacy'.last.op = "SetSkipRequests") =>
                /\ legacy'.last.arg => mode' = ModeYolo
                /\ ~legacy'.last.arg => mode' = ModeRegular
          /\ \A r \in Reqs :
                ( /\ req[r].pc = "idle" /\ req'[r].pc # "idle"
                  /\ legacy.last.op = "SetSkipRequests" /\ ~legacy.last.arg
                  /\ legacy.last.before = ModePlan
                  /\ mode = ModeRegular )
                => /\ req'[r].pc = "lock"
                   /\ req'[r].err = ErrNil
       ]_vars

\* C36's case: a write was blocked in Plan mode; SetSkipRequests(false) was
\* called in Plan mode; the same write, requested again, was approved.
C36_Witness ==
    /\ legacy.last.op = "SetSkipRequests" /\ ~legacy.last.arg
    /\ legacy.last.before = ModePlan
    /\ mode = ModeRegular
    /\ req[1].pc = "done" /\ req[1].err = ErrPlanMode
    /\ req[2].opts = req[1].opts /\ req[2].mode = ModeRegular
    /\ req[2].pc = "done" /\ req[2].granted = TRUE

\* C38 (payload of the notifications): no published notification has
\* Granted and Denied both set; a step publishes at most one notification;
\* the one a call of Request publishes on its way to the lock is
\* (toolCallID, false, false), the one it publishes on returning from a
\* fast path is (toolCallID, true, false), with the call's own toolCallID;
\* the one a call of Grant or GrantPersistent publishes is (toolCallID of
\* its request, true, false), and the one a call of Deny publishes is
\* (toolCallID of its request, false, true).
C38_NotificationPayload ==
    /\ [](\A n \in Notified : ~(n.Granted /\ n.Denied))
    /\ [][notifications' # notifications =>
             \E n \in BagToSet(notifications') :
                /\ notifications' = notifications (+) SetToBag({n})
                /\ \A r \in Reqs :
                      /\ (req[r].pc = "idle" /\ req'[r].pc # "idle") =>
                            n = [ToolCallID |-> r, Granted |-> FALSE, Denied |-> FALSE]
                      /\ (req[r].pc = "lock" /\ req'[r].pc = "done") =>
                            n = [ToolCallID |-> r, Granted |-> TRUE, Denied |-> FALSE]
                /\ \A d \in Decs :
                      (dec[d].pc = "idle" /\ dec'[d].pc # "idle") =>
                          /\ n.ToolCallID = dec'[d].permission.ToolCallID
                          /\ dec'[d].permission \in PromptOf(n.ToolCallID)
                          /\ dec'[d].kind \in {"Grant", "GrantPersistent"} =>
                                n.Granted /\ ~n.Denied
                          /\ dec'[d].kind = "Deny" => ~n.Granted /\ n.Denied
                /\ \/ \E r \in Reqs : req'[r].pc # req[r].pc
                   \/ \E d \in Decs : dec[d].pc = "idle" /\ dec'[d].pc # "idle"
       ]_vars

\* C38's case: one call's prompt was answered by Grant and by Deny; the
\* requested, the granted and the denied notification of its toolCallID
\* have been published.
C38_Witness ==
    \E r \in Reqs :
        /\ [ToolCallID |-> r, Granted |-> FALSE, Denied |-> FALSE] \in Notified
        /\ [ToolCallID |-> r, Granted |-> TRUE, Denied |-> FALSE] \in Notified
        /\ [ToolCallID |-> r, Granted |-> FALSE, Denied |-> TRUE] \in Notified
        /\ \E d, e \in Decs : /\ dec[d].kind = "Grant" /\ dec[e].kind = "Deny"
                              /\ dec[d].permission = dec[e].permission
                              /\ dec[d].permission.ToolCallID = r

C37_WitnessMismatch ==
    /\ login.flow = "onboarding"
    /\ login.step = "submitCode"
    /\ login.action = ActionReportError
    /\ login.State = StateWaitingForCode
    /\ login.exchange.n = 0
    /\ ContainsHash(login.input)
    /\ login.authParams = AuthState(1)
    /\ login.input = <<"c", "#", "c">>

\* the plain CLI has started the exchange on a text with a second "#"
C37_WitnessSecondHash ==
    /\ login.flow = "plain"
    /\ login.State = StateExchanging
    /\ login.input = <<"#", "s", "#">>
    /\ login.exchange.state = login.authParams

\* C39: the OAuthAnthropic dialog starts in Ready; it enters WaitingForCode
\* only on an auth-initialised message without error, Exchanging only from
\* submitCode, and Error only on an auth-initialised or token-exchanged
\* message that carries an error; Success is never assigned; on a
\* token-exchanged message without error the dialog keeps the token, saves
\* it and emits the select-model action (or reports that saving failed)
\* while its state remains Exchanging.
C39_DialogStateMachine ==
    /\ login.flow = "dialog" => login.State = StateReady
    /\ [][login.flow = "dialog" =>
           LET handled == login.msgs \ login'.msgs IN
               /\ login'.State = StateWaitingForCode /\ login.State # StateWaitingForCode
                      => \E m \in handled : m.kind = "auth" /\ ~m.error
               /\ login'.State = StateExchanging /\ login.State # StateExchanging
                      => login'.step = "submitCode"
               /\ login'.State = StateError /\ login.State # StateError
                      => \E m \in handled : m.error
               /\ login'.State # StateSuccess
               /\ (\E m \in handled : m.kind = "token" /\ ~m.error)
                      => /\ login'.token
                         /\ login'.action \in {ActionSelectModel, ActionReportError}
                         /\ login'.action = ActionSelectModel => login'.saved
                         /\ login'.State = StateExchanging
      ]_vars

=============================================================================
